---- MODULE Spec2Model ----
(***************************************************************************)
(* ngcli: the template package (metadata parser, parameter validation,     *)
(* default application, rendering) as a state machine over Go strings.     *)
(* A Go string is a TLA+ string; Len, \o, SubSeq, Head and Tail act on it   *)
(* character by character.                                                 *)
(***************************************************************************)
EXTENDS Integers, Sequences, FiniteSets, TLC

(***************************************************************************)
(* Strings: the pieces of package strings / regexp the code relies on.     *)
(***************************************************************************)

Char(s, i) == SubSeq(s, i, i)

\* regexp class \s and the ASCII part of unicode.IsSpace (strings.TrimSpace)
SpaceChars == {" ", "\t", "\n", "\r", "\f"}

\* regexp class \w
WordChars ==
    {"a","b","c","d","e","f","g","h","i","j","k","l","m","n","o","p","q","r",
     "s","t","u","v","w","x","y","z","A","B","C","D","E","F","G","H","I","J",
     "K","L","M","N","O","P","Q","R","S","T","U","V","W","X","Y","Z","0","1",
     "2","3","4","5","6","7","8","9","_"}

DigitChars == {"0","1","2","3","4","5","6","7","8","9"}

IsSpace(c) == c \in SpaceChars

IsWord(c) == c \in WordChars

\* strings.HasPrefix
HasPrefix(s, prefix) ==
    /\ Len(prefix) <= Len(s)
    /\ SubSeq(s, 1, Len(prefix)) = prefix

\* strings.HasSuffix
HasSuffix(s, suffix) ==
    /\ Len(suffix) <= Len(s)
    /\ SubSeq(s, Len(s) - Len(suffix) + 1, Len(s)) = suffix

\* does lit occur in s starting at index i
LitAt(s, i, lit) ==
    /\ i >= 1
    /\ i + Len(lit) - 1 <= Len(s)
    /\ SubSeq(s, i, i + Len(lit) - 1) = lit

\* first index >= i of s holding a character outside class (Len(s)+1 if
\* none): a scan that moves right one index at a time
SkipClass(s, i, class) ==
    IF i > Len(s) THEN i
    ELSE CHOOSE k \in i..(Len(s) + 1) :
             /\ k = Len(s) + 1 \/ Char(s, k) \notin class
             /\ \A j \in i..(k - 1) : Char(s, j) \in class

\* first index >= i of s holding a character of class (Len(s)+1 if none)
SkipUntil(s, i, class) ==
    IF i > Len(s) THEN i
    ELSE CHOOSE k \in i..(Len(s) + 1) :
             /\ k = Len(s) + 1 \/ Char(s, k) \in class
             /\ \A j \in i..(k - 1) : Char(s, j) \notin class

\* last index <= j of s holding a character outside class (0 if none)
SkipClassBack(s, j, class) ==
    IF j < 1 THEN j
    ELSE CHOOSE k \in 0..j :
             /\ k = 0 \/ Char(s, k) \notin class
             /\ \A n \in (k + 1)..j : Char(s, n) \in class

\* strings.Trim(s, cutset) with the cutset given as a set of characters
Trim(s, class) ==
    LET i == SkipClass(s, 1, class)
        j == SkipClassBack(s, Len(s), class)
    IN  IF i > j THEN "" ELSE SubSeq(s, i, j)

\* strings.TrimSpace
TrimSpace(s) == Trim(s, SpaceChars)

\* strings.TrimSuffix
TrimSuffix(s, suffix) ==
    IF HasSuffix(s, suffix) THEN SubSeq(s, 1, Len(s) - Len(suffix)) ELSE s

\* strings.Split(s, sep) for a one-character separator
RECURSIVE Split(_, _)
Split(s, sep) ==
    LET i == SkipUntil(s, 1, {sep})
    IN  IF i > Len(s) THEN <<s>>
        ELSE <<SubSeq(s, 1, i - 1)>> \o Split(SubSeq(s, i + 1, Len(s)), sep)

\* strings.Join
RECURSIVE Join(_, _)
Join(elems, sep) ==
    IF elems = <<>> THEN ""
    ELSE IF Len(elems) = 1 THEN elems[1]
    ELSE elems[1] \o sep \o Join(Tail(elems), sep)

\* bufio.Scanner with ScanLines: the text cut at "\n", one trailing "\r"
\* dropped from each line, no empty last line after a final "\n"
DropCR(line) == IF HasSuffix(line, "\r") THEN SubSeq(line, 1, Len(line) - 1) ELSE line

RECURSIVE ScanLines(_)
ScanLines(text) ==
    IF text = "" THEN <<>>
    ELSE LET i == SkipUntil(text, 1, {"\n"})
         IN  <<DropCR(SubSeq(text, 1, i - 1))>>
                 \o ScanLines(SubSeq(text, i + 1, Len(text)))

(***************************************************************************)
(* metadata.go: the data model and the comment-header parser.              *)
(***************************************************************************)

\* type ParameterInfo struct
ParameterInfo(name, type, required, description, default, options) ==
    [Name |-> name, Type |-> type, Required |-> required,
     Description |-> description, Default |-> default, Options |-> options]

\* metadata := &TemplateMetadata{Parameters: make([]ParameterInfo, 0)}
EmptyMetadata ==
    [Name |-> "", Description |-> "", Author |-> "", Version |-> "",
     Parameters |-> <<>>]

\* FindStringSubmatch returned nil
NoMatch == [ok |-> FALSE]

\* ^#\s*<key>\s*(.+)$ with key one of "Template:", "Description:", "Author:",
\* "Version:". \s* is greedy and hands one character back when (.+) would
\* otherwise be left with nothing.
HeaderValue(line, j, k) ==
    IF k <= Len(line) THEN [ok |-> TRUE, val |-> SubSeq(line, k, Len(line))]
    ELSE IF k > j THEN [ok |-> TRUE, val |-> Char(line, Len(line))]
    ELSE NoMatch

HeaderKey(line, key, i) ==
    IF ~LitAt(line, i, key) THEN NoMatch
    ELSE HeaderValue(line, i + Len(key), SkipClass(line, i + Len(key), SpaceChars))

\* a pattern without the anchor: #.*<key>\s*(.+)$
MatchHeaderAnywhere(line, key) ==
    IF ~HasPrefix(line, "#") \/ \A k \in 1..Len(line) : ~LitAt(line, k, key)
      THEN NoMatch
    ELSE HeaderKey(line, key,
                   CHOOSE k \in 1..Len(line) :
                       /\ LitAt(line, k, key)
                       /\ \A j \in 1..(k - 1) : ~LitAt(line, j, key))

MatchHeaderLine(line, key) ==
    IF ~HasPrefix(line, "#") THEN NoMatch
    ELSE HeaderKey(line, key, SkipClass(line, 2, SpaceChars))

\* (?:\s+(.*))?$ at index i, the end of paramRegex: group 5, "" when unset
ParamAttrs(line, i, k) ==
    IF k = i THEN NoMatch ELSE [ok |-> TRUE, attrs |-> SubSeq(line, k, Len(line))]

MatchParamTail(line, i) ==
    IF i > Len(line) THEN [ok |-> TRUE, attrs |-> ""]
    ELSE ParamAttrs(line, i, SkipClass(line, i, SpaceChars))

\* a paramRegex whose description may be empty: "([^"]*)"
ParamDescriptionOrNone(line, word, q, e, tail) ==
    IF e > Len(line) \/ ~tail.ok THEN NoMatch
    ELSE [ok |-> TRUE, req |-> word, desc |-> SubSeq(line, q + 1, e - 1),
          attrs |-> tail.attrs]

\* "([^"]+)" with the opening quote at index q and the next quote at index
\* e, then the tail
ParamDescription(line, word, q, e, tail) ==
    IF e = q + 1 \/ e > Len(line) \/ ~tail.ok THEN NoMatch
    ELSE [ok |-> TRUE, req |-> word, desc |-> SubSeq(line, q + 1, e - 1),
          attrs |-> tail.attrs]

ParamQuote(line, word, q, e) ==
    ParamDescription(line, word, q, e, MatchParamTail(line, e + 1))

\* \s+" from index j to index q
ParamSpace(line, word, j, q) ==
    IF word = "" \/ q = j \/ ~LitAt(line, q, "\"") THEN NoMatch
    ELSE ParamQuote(line, word, q, SkipUntil(line, q + 1, {"\""}))

ParamWord(line, i, word) ==
    ParamSpace(line, word, i + Len(word), SkipClass(line, i + Len(word), SpaceChars))

\* (required|optional)\s+"([^"]+)" at index i, then the tail
MatchParamRest(line, i) ==
    ParamWord(line, i,
              IF LitAt(line, i, "required") THEN "required"
              ELSE IF LitAt(line, i, "optional") THEN "optional" ELSE "")

\* paramRegex:
\* ^#\s*@param\s+(\w+)\s+(\w+)\s+(required|optional)\s+"([^"]+)"(?:\s+(.*))?$
ParamMatch(line, n0, n1, t0, t1, rest) ==
    IF ~rest.ok THEN NoMatch
    ELSE [ok |-> TRUE, name |-> SubSeq(line, n0, n1 - 1),
          type |-> SubSeq(line, t0, t1 - 1), req |-> rest.req,
          desc |-> rest.desc, attrs |-> rest.attrs]

\* \s+ from index t1 to index r0, then (required|optional) and the rest
ParamType(line, n0, n1, t0, t1, r0) ==
    IF t1 = t0 \/ r0 = t1 THEN NoMatch
    ELSE ParamMatch(line, n0, n1, t0, t1, MatchParamRest(line, r0))

\* (\w+) from index t0 to index t1
ParamTypeWord(line, n0, n1, t0, t1) ==
    ParamType(line, n0, n1, t0, t1, SkipClass(line, t1, SpaceChars))

\* (\w+)\s+ from index n0 over n1 to index t0
ParamName(line, n0, n1, t0) ==
    IF n1 = n0 \/ t0 = n1 THEN NoMatch
    ELSE ParamTypeWord(line, n0, n1, t0, SkipClass(line, t0, WordChars))

ParamNameWord(line, n0, n1) ==
    ParamName(line, n0, n1, SkipClass(line, n1, SpaceChars))

\* @param\s+ from index a to index n0
ParamKeyword(line, a, n0) ==
    IF ~LitAt(line, a, "@param") \/ n0 = a + 6 THEN NoMatch
    ELSE ParamNameWord(line, n0, SkipClass(line, n0, WordChars))

ParamHash(line, a) == ParamKeyword(line, a, SkipClass(line, a + 6, SpaceChars))

MatchParamLine(line) ==
    IF ~HasPrefix(line, "#") THEN NoMatch
    ELSE ParamHash(line, SkipClass(line, 2, SpaceChars))

\* defaultRegex default=([^,\s]+|"[^"]*") matched at index i, the first
\* alternative preferred
DefaultQuoted(attributes, j, q) ==
    IF LitAt(attributes, j, "\"") /\ q <= Len(attributes)
      THEN [ok |-> TRUE, val |-> SubSeq(attributes, j, q)]
    ELSE NoMatch

DefaultBare(attributes, j, k) ==
    IF k > j THEN [ok |-> TRUE, val |-> SubSeq(attributes, j, k - 1)]
    ELSE DefaultQuoted(attributes, j, SkipUntil(attributes, j + 1, {"\""}))

DefaultAt(attributes, i) ==
    IF ~LitAt(attributes, i, "default=") THEN NoMatch
    ELSE DefaultBare(attributes, i + 8,
                     SkipUntil(attributes, i + 8, SpaceChars \cup {","}))

\* defaultRegex.FindStringSubmatch(attributes): the leftmost match
Least(hits) == CHOOSE i \in hits : \A j \in hits : i <= j

FirstMatch(matches) ==
    IF \A i \in DOMAIN matches : ~matches[i].ok THEN NoMatch
    ELSE matches[Least({i \in DOMAIN matches : matches[i].ok})]

FindDefault(attributes) ==
    FirstMatch([i \in 1..Len(attributes) |-> DefaultAt(attributes, i)])

\* optionsRegex options=\[([^\]]+)\] matched at index i
OptionsList(attributes, j, k) ==
    IF k > j /\ k <= Len(attributes)
      THEN [ok |-> TRUE, val |-> SubSeq(attributes, j, k - 1)]
    ELSE NoMatch

OptionsAt(attributes, i) ==
    IF ~LitAt(attributes, i, "options=[") THEN NoMatch
    ELSE OptionsList(attributes, i + 9, SkipUntil(attributes, i + 9, {"]"}))

\* optionsRegex.FindStringSubmatch(attributes): the leftmost match
FindOptions(attributes) ==
    FirstMatch([i \in 1..Len(attributes) |-> OptionsAt(attributes, i)])

\* the loop over strings.Split(optionsList, ","): trimmed, unquoted, non-empty
NonEmpty(cleaned) == IF cleaned # "" THEN <<cleaned>> ELSE <<>>

RECURSIVE CleanOptions(_)
CleanOptions(opts) ==
    IF opts = <<>> THEN <<>>
    ELSE NonEmpty(Trim(TrimSpace(Head(opts)), {"\""})) \o CleanOptions(Tail(opts))

\* a parseParameterAttributes that loses the default= attribute
AttributesWithoutDefault(d, o) ==
    [Default |-> "",
     Options |-> IF o.ok THEN CleanOptions(Split(o.val, ",")) ELSE <<>>]

\* the two results of parseParameterAttributes from the two matches
ParsedAttributes(d, o) ==
    [Default |-> IF d.ok THEN Trim(d.val, {"\""}) ELSE "",
     Options |-> IF o.ok THEN CleanOptions(Split(o.val, ",")) ELSE <<>>]

\* func parseParameterAttributes(attributes string) (string, []string)
parseParameterAttributes(attributes) ==
    ParsedAttributes(FindDefault(attributes), FindOptions(attributes))

\* param := ParameterInfo{...} from the match, with the attributes parsed
ParamOf(pm, attrs) ==
    ParameterInfo(pm.name, pm.type, pm.req = "required", pm.desc,
                  attrs.Default, attrs.Options)

\* a parser that keeps the first declaration of a name only
AppendParamOnce(metadata, pm) ==
    IF \E i \in DOMAIN metadata.Parameters :
           metadata.Parameters[i].Name = pm.name
      THEN metadata
    ELSE [metadata EXCEPT !.Parameters =
             Append(@, ParamOf(pm, IF pm.attrs # ""
                                     THEN parseParameterAttributes(pm.attrs)
                                     ELSE [Default |-> "", Options |-> <<>>]))]

\* if len(match) > 5 && match[5] != "" { ... }; append
AppendParam(metadata, pm) ==
    [metadata EXCEPT !.Parameters =
        Append(@, ParamOf(pm, IF pm.attrs # ""
                                THEN parseParameterAttributes(pm.attrs)
                                ELSE [Default |-> "", Options |-> <<>>]))]

\* the body of the scanner loop for one trimmed comment or blank line: the
\* five patterns in order, the first match wins
ParseLineMatches(metadata, tm, dm, am, vm, pm) ==
    IF tm.ok THEN [metadata EXCEPT !.Name = TrimSpace(tm.val)]
    ELSE IF dm.ok THEN [metadata EXCEPT !.Description = TrimSpace(dm.val)]
    ELSE IF am.ok THEN [metadata EXCEPT !.Author = TrimSpace(am.val)]
    ELSE IF vm.ok THEN [metadata EXCEPT !.Version = TrimSpace(vm.val)]
    ELSE IF pm.ok THEN AppendParam(metadata, pm)
    ELSE metadata

ParseLine(metadata, line) ==
    ParseLineMatches(metadata,
                     MatchHeaderLine(line, "Template:"),
                     MatchHeaderLine(line, "Description:"),
                     MatchHeaderLine(line, "Author:"),
                     MatchHeaderLine(line, "Version:"),
                     MatchParamLine(line))

\* for scanner.Scan() { ... }: stops at the first line that is neither blank
\* nor a comment
RECURSIVE ScanMetadata(_, _, _)
ScanLineThrough(lines, i, metadata, line) ==
    ScanMetadata(lines, i + 1,
                 IF ~HasPrefix(line, "#") /\ line # "" THEN metadata
                 ELSE ParseLine(metadata, line))

ScanLine(lines, i, metadata, line) ==
    IF ~HasPrefix(line, "#") /\ line # "" THEN metadata
    ELSE ScanMetadata(lines, i + 1, ParseLine(metadata, line))

ScanMetadata(lines, i, metadata) ==
    IF i > Len(lines) THEN metadata
    ELSE ScanLine(lines, i, metadata, TrimSpace(lines[i]))

\* func ParseTemplateMetadata(templateContent string) (*TemplateMetadata, error)
\* (the error is always nil)
ParseTemplateMetadata(templateContent) ==
    ScanMetadata(ScanLines(templateContent), 1, EmptyMetadata)

(***************************************************************************)
(* metadata.go: validation and default application.  A map[string]string   *)
(* is a function from its keys to their values; an error is its message,   *)
(* "" for nil.                                                             *)
(***************************************************************************)

EmptyMap == <<>>

\* result[key] = value
Put(m, key, value) ==
    [k \in (DOMAIN m) \cup {key} |-> IF k = key THEN value ELSE m[k]]

\* the decimal digits of the largest and of the smallest int (64-bit build)
MaxIntDigits == "9223372036854775807"

MinIntDigits == "9223372036854775808"

\* a <= b for digit strings of equal length
RECURSIVE DigitsLeq(_, _)
DigitsLeq(a, b) ==
    IF a = "" THEN TRUE
    ELSE IF Head(a) = Head(b) THEN DigitsLeq(Tail(a), Tail(b))
    ELSE \E i, j \in 0..9 : /\ ToString(i) = Head(a)
                            /\ ToString(j) = Head(b)
                            /\ i < j

\* strconv.Atoi(value) returns a nil error: an optional sign, one or more
\* decimal digits, the number within the range of int
\* the significant digits sig are within the limit
InRange(sig, limit) ==
    \/ Len(sig) < Len(limit)
    \/ Len(sig) = Len(limit) /\ DigitsLeq(sig, limit)

\* digits, the text after the sign, is a decimal number within the limit
DigitsOk(digits, limit) ==
    /\ digits # ""
    /\ SkipClass(digits, 1, DigitChars) > Len(digits)
    /\ InRange(SubSeq(digits, SkipClass(digits, 1, {"0"}), Len(digits)), limit)

\* an Atoi that takes no sign
AtoiUnsigned(value) == DigitsOk(value, MaxIntDigits)

AtoiOk(value) ==
    DigitsOk(IF HasPrefix(value, "-") \/ HasPrefix(value, "+")
               THEN SubSeq(value, 2, Len(value)) ELSE value,
             IF HasPrefix(value, "-") THEN MinIntDigits ELSE MaxIntDigits)

\* func (m *TemplateMetadata) validateParameterValue(param, value) error
\* switch param.Type { ... }: the error of the type check, "" if it passes
TypeError(param, value) ==
    IF param.Type = "integer" /\ ~AtoiOk(value)
      THEN "must be an integer"
    ELSE IF param.Type = "boolean" /\ value # "true" /\ value # "false"
      THEN "must be true or false"
    ELSE IF param.Type = "file_path" /\ TrimSpace(value) = ""
      THEN "file path cannot be empty"
    ELSE ""

\* a validateParameterValue that looks at the options before the type
OptionsFirst(param, value, typeErr) ==
    IF Len(param.Options) > 0
         /\ ~\E i \in DOMAIN param.Options : value = param.Options[i]
      THEN "must be one of: " \o Join(param.Options, ", ")
    ELSE typeErr

\* a validateParameterValue that adds the options to the reason of a failed
\* type check
OptionsToo(param, value, typeErr) ==
    IF Len(param.Options) > 0
         /\ ~\E i \in DOMAIN param.Options : value = param.Options[i]
      THEN (IF typeErr # "" THEN typeErr \o ", " ELSE "")
             \o "must be one of: " \o Join(param.Options, ", ")
    ELSE typeErr

\* if len(param.Options) > 0 { ... }, reached when the type check passed
OptionsError(param, value, typeErr) ==
    IF typeErr # "" THEN typeErr
    ELSE IF Len(param.Options) > 0
           /\ ~\E i \in DOMAIN param.Options : value = param.Options[i]
      THEN "must be one of: " \o Join(param.Options, ", ")
    ELSE ""

validateParameterValue(param, value) ==
    OptionsError(param, value, TypeError(param, value))

\* a loop body that takes a key present with an empty value for an absent one
RecordedEmptyAsMissing(param, params, acc, verr) ==
    [missing |-> IF param.Required
                    /\ (param.Name \notin DOMAIN params \/ params[param.Name] = "")
                   THEN Append(acc.missing, param.Name) ELSE acc.missing,
     invalid |-> IF param.Name \in DOMAIN params /\ verr # ""
                   THEN Append(acc.invalid, param.Name \o ": " \o verr)
                   ELSE acc.invalid]

\* a loop body that checks values only while nothing is missing yet
RecordedUntilMissing(param, params, acc, verr) ==
    [missing |-> IF param.Required /\ param.Name \notin DOMAIN params
                   THEN Append(acc.missing, param.Name) ELSE acc.missing,
     invalid |-> IF param.Name \in DOMAIN params /\ verr # "" /\ acc.missing = <<>>
                   THEN Append(acc.invalid, param.Name \o ": " \o verr)
                   ELSE acc.invalid]

\* the body of the loop of ValidateParameters for one declared parameter:
\* acc holds the locals missing and invalid
Recorded(param, params, acc, verr) ==
    [missing |-> IF param.Required /\ param.Name \notin DOMAIN params
                   THEN Append(acc.missing, param.Name) ELSE acc.missing,
     invalid |-> IF param.Name \in DOMAIN params /\ verr # ""
                   THEN Append(acc.invalid, param.Name \o ": " \o verr)
                   ELSE acc.invalid]

ValidateOne(param, params, acc) ==
    Recorded(param, params, acc,
             IF param.Name \notin DOMAIN params THEN ""
             ELSE validateParameterValue(param, params[param.Name]))

\* a loop that returns at the first missing parameter
RECURSIVE ValidateLoopFirstMissing(_, _, _)
ValidateLoopFirstMissing(parameters, params, acc) ==
    IF parameters = <<>> \/ acc.missing # <<>> THEN acc
    ELSE ValidateLoopFirstMissing(Tail(parameters), params,
                                  ValidateOne(Head(parameters), params, acc))

\* for _, param := range m.Parameters { ... } of ValidateParameters
RECURSIVE ValidateLoop(_, _, _)
ValidateLoop(parameters, params, acc) ==
    IF parameters = <<>> THEN acc
    ELSE ValidateLoop(Tail(parameters), params,
                      ValidateOne(Head(parameters), params, acc))

\* the returns after the loop of ValidateParameters: the missing names take
\* precedence, the invalid entries are reported only when nothing is missing
ValidationError(acc) ==
    [err |-> IF Len(acc.missing) > 0
               THEN "missing required parameters: " \o Join(acc.missing, ", ")
             ELSE IF Len(acc.invalid) > 0
               THEN "invalid parameter values: " \o Join(acc.invalid, "; ")
             ELSE "",
     missing |-> acc.missing,
     invalid |-> acc.invalid]

\* func (m *TemplateMetadata) ValidateParameters(params) error, with the
\* locals missing and invalid as they stand at the return
ValidateParameters(m, params) ==
    ValidationError(ValidateLoop(m.Parameters, params,
                                 [missing |-> <<>>, invalid |-> <<>>]))

\* a loop body of ApplyDefaults without the exists check
ApplyDefaultOverwriting(param, result) ==
    IF param.Default # ""
      THEN Put(result, param.Name, param.Default)
    ELSE result

\* the body of the loop of ApplyDefaults for one declared parameter
ApplyDefault(param, result) ==
    IF param.Name \notin DOMAIN result /\ param.Default # ""
      THEN Put(result, param.Name, param.Default)
    ELSE result

\* a loop of ApplyDefaults that returns after the first default it inserts
RECURSIVE ApplyDefaultsLoopOnce(_, _)
ApplyDefaultsLoopOnce(parameters, result) ==
    IF parameters = <<>> THEN result
    ELSE IF ApplyDefault(Head(parameters), result) # result
      THEN ApplyDefault(Head(parameters), result)
    ELSE ApplyDefaultsLoopOnce(Tail(parameters), result)

\* for _, param := range m.Parameters { ... } of ApplyDefaults
RECURSIVE ApplyDefaultsLoop(_, _)
ApplyDefaultsLoop(parameters, result) ==
    IF parameters = <<>> THEN result
    ELSE ApplyDefaultsLoop(Tail(parameters), ApplyDefault(Head(parameters), result))

\* func (m *TemplateMetadata) ApplyDefaults(params) map[string]string: the
\* copy of params, then the defaults
ApplyDefaults(m, params) == ApplyDefaultsLoop(m.Parameters, params)

\* fmt's %-15s and %-8s: the string, then spaces up to the width
Pad(s, width) ==
    IF Len(s) >= width THEN s
    ELSE s \o SubSeq("               ", 1, width - Len(s))

\* the lines GetParameterHelp writes for one parameter
ParamHelp(param) ==
    "  " \o Pad(param.Name, 15) \o " " \o Pad(param.Type, 8) \o " "
        \o Pad(IF param.Required THEN "required" ELSE "optional", 8) \o " "
        \o param.Description \o "\n"
        \o (IF param.Default # ""
              THEN "  " \o Pad("", 15) \o " default: " \o param.Default \o "\n"
            ELSE "")
        \o (IF Len(param.Options) > 0
              THEN "  " \o Pad("", 15) \o " options: "
                     \o Join(param.Options, ", ") \o "\n"
            ELSE "")
        \o "\n"

RECURSIVE HelpLoop(_)
HelpLoop(parameters) ==
    IF parameters = <<>> THEN ""
    ELSE ParamHelp(Head(parameters)) \o HelpLoop(Tail(parameters))

\* func (m *TemplateMetadata) GetParameterHelp() string
GetParameterHelp(m) ==
    IF Len(m.Parameters) = 0 THEN "No parameters defined for this template"
    ELSE "Parameters:\n" \o HelpLoop(m.Parameters)

(***************************************************************************)
(* template.go: loading and rendering.  text/template is modelled for the  *)
(* template grammar of plain text, field actions {{.name}} and bare        *)
(* identifiers {{name}}; the data of Execute is a map[string]string.       *)
(***************************************************************************)

\* strings.Index from index i on: the index of the first lit, 0 if none
IndexFrom(s, i, lit) ==
    LET hits == {k \in i..Len(s) : LitAt(s, k, lit)}
    IN  IF hits = {} THEN 0 ELSE CHOOSE k \in hits : \A n \in hits : k <= n

\* the number of "\n" in s
CountNewlines(s) == Cardinality({i \in 1..Len(s) : Char(s, i) = "\n"})

\* the functions text/template predefines and the words its lexer keeps
TemplateFuncs ==
    {"and", "call", "html", "index", "slice", "js", "len", "not", "or",
     "print", "printf", "println", "urlquery", "eq", "ge", "gt", "le", "lt",
     "ne"}

TemplateKeywords ==
    {"block", "break", "continue", "define", "else", "end", "if", "range",
     "nil", "template", "with", "true", "false"}

\* the identifier an action body starts with, "" if it starts otherwise
LeadingIdentifier(body) ==
    IF body = "" \/ Head(body) \notin (WordChars \ DigitChars) THEN ""
    ELSE SubSeq(body, 1, SkipClass(body, 1, WordChars) - 1)

\* the action body is one field of dot: .name
IsFieldAction(body) ==
    /\ HasPrefix(body, ".")
    /\ Len(body) > 1
    /\ Char(body, 2) \in (WordChars \ DigitChars)
    /\ SkipClass(body, 2, WordChars) > Len(body)

TextNode(text) == IF text = "" THEN <<>> ELSE <<[kind |-> "text", val |-> text]>>

FieldNode(name) == <<[kind |-> "field", val |-> name]>>

\* template.New(name).Parse(content) from index pos on: the node list, or
\* the first error in text order
RECURSIVE ParseNodes(_, _, _)

\* the prefix of a parse error raised at index open of content
ErrorContext(name, content, open) ==
    "template: " \o name \o ":"
        \o ToString(1 + CountNewlines(SubSeq(content, 1, open - 1))) \o ": "

\* a field action parsed: the text before it, the field, the nodes after it
FieldThen(text, field, rest) ==
    IF rest.err # "" THEN rest
    ELSE [err |-> "", tree |-> TextNode(text) \o FieldNode(field) \o rest.tree]

\* the action from index open to index close (0 if "}}" never comes), its
\* body trimmed and the identifier the body starts with
ParseAction(name, content, pos, open, close, body, ident) ==
    IF ident # "" /\ ident \notin (TemplateFuncs \cup TemplateKeywords)
      THEN [err |-> ErrorContext(name, content, open)
                      \o "function \"" \o ident \o "\" not defined",
            tree |-> <<>>]
    ELSE IF close = 0
      THEN [err |-> ErrorContext(name, content, open) \o "unclosed action",
            tree |-> <<>>]
    ELSE IF ~IsFieldAction(body)
      THEN [err |-> ErrorContext(name, content, open)
                      \o "action outside the modelled grammar",
            tree |-> <<>>]
    ELSE FieldThen(SubSeq(content, pos, open - 1), Tail(body),
                   ParseNodes(name, content, close + 2))

ParseBody(name, content, pos, open, close, body) ==
    ParseAction(name, content, pos, open, close, body, LeadingIdentifier(body))

ParseDelims(name, content, pos, open, close) ==
    ParseBody(name, content, pos, open, close,
              TrimSpace(SubSeq(content, open + 2,
                               IF close = 0 THEN Len(content) ELSE close - 1)))

ParseFrom(name, content, pos, open) ==
    IF open = 0
      THEN [err |-> "", tree |-> TextNode(SubSeq(content, pos, Len(content)))]
    ELSE ParseDelims(name, content, pos, open, IndexFrom(content, open + 2, "}}"))

ParseNodes(name, content, pos) ==
    ParseFrom(name, content, pos, IndexFrom(content, pos, "{{"))

\* t.Template.Execute(&output, params): a field of a map prints the entry,
\* "<no value>" when the key is absent
ExecuteNode(node, params) ==
    IF node.kind = "text" THEN node.val
    ELSE IF node.val \in DOMAIN params THEN params[node.val]
    ELSE "<no value>"

RECURSIVE Execute(_, _)
Execute(tree, params) ==
    IF tree = <<>> THEN ""
    ELSE ExecuteNode(Head(tree), params) \o Execute(Tail(tree), params)

\* type Template struct; the zero value stands for the nil *Template
NoTemplate ==
    [Name |-> "", Path |-> "", Content |-> "", Template |-> <<>>,
     Metadata |-> EmptyMetadata]

\* an entry of the template directory
File(content) == [IsDir |-> FALSE, Content |-> content]

Directory == [IsDir |-> TRUE, Content |-> ""]

\* the returns of LoadTemplate once the file is known to exist, parsed the
\* result of template.New(name).Parse
LoadParsed(name, templatePath, entry, parsed) ==
    IF entry.IsDir
      THEN [tmpl |-> NoTemplate,
            err |-> "failed to read template " \o templatePath \o ": read "
                      \o templatePath \o ": is a directory"]
    ELSE IF parsed.err # ""
      THEN [tmpl |-> NoTemplate,
            err |-> "failed to parse template " \o templatePath \o ": "
                      \o parsed.err]
    ELSE [tmpl |-> [Name |-> name, Path |-> templatePath,
                    Content |-> entry.Content, Template |-> parsed.tree,
                    Metadata |-> ParseTemplateMetadata(entry.Content)],
          err |-> ""]

LoadNamed(name, templateName, templatePath, fs) ==
    IF templateName \notin DOMAIN fs
      THEN [tmpl |-> NoTemplate, err |-> "template not found: " \o templatePath]
    ELSE LoadParsed(name, templatePath, fs[templateName],
                    ParseNodes(name, fs[templateName].Content, 1))

LoadFile(name, templateDir, fs, templateName) ==
    LoadNamed(name, templateName, templateDir \o "/" \o templateName, fs)

\* func LoadTemplate(name, templateDir string) (*Template, error), fs the
\* entries of templateDir by file name
LoadTemplate(name, templateDir, fs) ==
    LoadFile(name, templateDir, fs,
             IF ~HasSuffix(name, ".conf.tpl") THEN name \o ".conf.tpl" ELSE name)

\* the elements of a list
Range(seq) == {seq[i] : i \in DOMAIN seq}

\* the names a template directory can hold directly, in the order of
\* os.ReadDir, which sorts by file name
EntryOrder ==
    <<".conf.tpl", "notes.txt", "old.conf.tpl", "sub", "x.conf.tpl",
      "x.conf.tpl.bak", "y.conf.tpl">>

\* os.ReadDir(templateDir): the entries of the directory itself
ReadDir(fs) ==
    LET Exists(entry) == entry \in DOMAIN fs
    IN  SelectSeq(EntryOrder, Exists)

\* templateName := strings.TrimSuffix(name, ".conf.tpl") for each listed name
Stripped(listed) == [i \in DOMAIN listed |-> TrimSuffix(listed[i], ".conf.tpl")]

\* a ListTemplates that does not skip directories
ListTemplatesWithDirs(templateDir, fs, readErr) ==
    LET Listed(entry) == HasSuffix(entry, ".conf.tpl")
    IN  IF readErr # ""
          THEN [templates |-> <<>>,
                err |-> "failed to read template directory " \o templateDir
                          \o ": " \o readErr]
        ELSE [templates |-> Stripped(SelectSeq(ReadDir(fs), Listed)), err |-> ""]

\* func ListTemplates(templateDir string) ([]string, error), fs the entries
\* under templateDir by path and readErr the error of os.ReadDir, "" for nil
ListTemplates(templateDir, fs, readErr) ==
    LET Listed(entry) == ~fs[entry].IsDir /\ HasSuffix(entry, ".conf.tpl")
    IN  IF readErr # ""
          THEN [templates |-> <<>>,
                err |-> "failed to read template directory " \o templateDir
                          \o ": " \o readErr]
        ELSE [templates |-> Stripped(SelectSeq(ReadDir(fs), Listed)), err |-> ""]

\* what a call hands back: the returned string and error, with the locals
\* of the methods it ran and the methods it invoked, in order
Result(o, e, r, mi, inv, c) ==
    [out |-> o, err |-> e, resolved |-> r, missing |-> mi, invalid |-> inv,
     calls |-> c]

\* func (t *Template) Render(params) (string, error): Execute does not fail
\* on a field of a map
Render(t, params) ==
    Result(Execute(t.Template, params), "", EmptyMap, <<>>, <<>>, <<"Render">>)

\* return t.Render(paramsWithDefaults)
RenderResolved(paramsWithDefaults, v, r) ==
    Result(r.out, r.err, paramsWithDefaults, v.missing, v.invalid,
           <<"ApplyDefaults", "ValidateParameters">> \o r.calls)

\* a RenderWithValidation that renders whatever the validation returned
RenderUnvalidated(t, paramsWithDefaults, v) ==
    RenderResolved(paramsWithDefaults, v, Render(t, paramsWithDefaults))

\* if err := t.Metadata.ValidateParameters(paramsWithDefaults); err != nil
RenderValidated(t, paramsWithDefaults, v) ==
    IF v.err # ""
      THEN Result("", v.err, paramsWithDefaults, v.missing, v.invalid,
                  <<"ApplyDefaults", "ValidateParameters">>)
    ELSE RenderResolved(paramsWithDefaults, v, Render(t, paramsWithDefaults))

RenderWithDefaults(t, paramsWithDefaults) ==
    RenderValidated(t, paramsWithDefaults,
                    ValidateParameters(t.Metadata, paramsWithDefaults))

\* a RenderWithValidation that validates the mapping as the caller passed it
RenderWithoutDefaults(t, params) == RenderWithDefaults(t, params)

\* func (t *Template) RenderWithValidation(params) (string, error)
RenderWithValidation(t, params) ==
    RenderWithDefaults(t, ApplyDefaults(t.Metadata, params))

(***************************************************************************)
(* cmd/generate.go: runGenerate.  A run is a record of the flags, the       *)
(* environment and the lines of standard input it was started with (in),   *)
(* the --set mapping (set), the output file, its backup and the            *)
(* sites-enabled entry, each <<>> when absent, the calls made to the       *)
(* filesystem and to nginx in order (trail), the parameters prompted for   *)
(* in order (prompts), what was rendered and the error returned.           *)
(***************************************************************************)

\* no run of generate yet
NoRun ==
    [in |-> <<>>, set |-> <<>>, config |-> <<>>, backup |-> <<>>,
     link |-> <<>>, trail |-> <<>>, prompts |-> <<>>, content |-> "",
     err |-> "", done |-> FALSE]

\* the run after a call of filesystem or system returned
Did(r, step, ok) == [r EXCEPT !.trail = Append(@, [step |-> step, ok |-> ok])]

\* an auto-enable that goes on to reload after a failed symlink
AutoEnableThenReload(r) ==
    IF r.in.hasEnabled
      THEN Did([Did(r, "symlink", r.in.linkErr = "") EXCEPT
                   !.link = IF r.in.linkErr = "" THEN r.config
                            ELSE IF r.in.linkErr = "symlink" THEN <<>> ELSE @],
               "reload", r.in.reloadOk)
    ELSE Did(r, "reload", r.in.reloadOk)

\* enabledDir, hasEnabled := utils.DetectNginxEnabledPath() and the rest of
\* runGenerate: CreateSymlink fails before or after it removed an existing
\* entry, and a failed symlink or reload is a warning, the return nil
AutoEnable(r) ==
    IF ~r.in.hasEnabled THEN Did(r, "reload", r.in.reloadOk)
    ELSE IF r.in.linkErr = "remove" THEN Did(r, "symlink", FALSE)
    ELSE IF r.in.linkErr = "symlink"
      THEN [Did(r, "symlink", FALSE) EXCEPT !.link = <<>>]
    ELSE Did([Did(r, "symlink", TRUE) EXCEPT !.link = r.config],
             "reload", r.in.reloadOk)

\* if err := system.NginxTest(); err != nil
RunNginxTest(r) ==
    IF ~r.in.testOk
      THEN [Did(r, "test", FALSE) EXCEPT !.err = "nginx validation failed"]
    ELSE AutoEnable(Did(r, "test", TRUE))

\* if err := filesystem.WriteFile(outputPath, content, true); err != nil
WriteConfiguration(r) ==
    IF ~r.in.writeOk
      THEN [Did(r, "write", FALSE) EXCEPT
               !.err = "failed to write configuration: " \o r.in.writeErr]
    ELSE RunNginxTest([Did(r, "write", TRUE) EXCEPT !.config = <<r.content>>])

\* a generate that overwrites an existing file whatever the answer
CheckOverwriteUnasked(r) ==
    IF r.config = <<>> THEN WriteConfiguration(r)
    ELSE IF ~r.in.backupOk
      THEN [Did(r, "backup", FALSE) EXCEPT
               !.err = "failed to create backup: " \o r.in.writeErr]
    ELSE WriteConfiguration([Did(r, "backup", TRUE) EXCEPT !.backup = r.config])

\* if utils.FileExists(outputPath): the answer is the line fmt.Scanln read,
\* "" for a scan error
CheckOverwrite(r) ==
    IF r.config = <<>> THEN WriteConfiguration(r)
    ELSE IF r.in.answer \notin {"y", "Y", "yes"} THEN r
    ELSE IF ~r.in.backupOk
      THEN [Did(r, "backup", FALSE) EXCEPT
               !.err = "failed to create backup: " \o r.in.writeErr]
    ELSE WriteConfiguration([Did(r, "backup", TRUE) EXCEPT !.backup = r.config])

\* a generate that does not look at --dry-run
DryRunPreviewWriting(r, rendered) ==
    IF rendered.err # "" THEN [r EXCEPT !.err = "template validation failed"]
    ELSE CheckOverwrite([r EXCEPT !.content = rendered.out])

\* if dryRun: the preview is printed and nothing else is done
DryRunPreview(r, rendered) ==
    IF rendered.err # "" THEN [r EXCEPT !.err = "template validation failed"]
    ELSE IF r.in.dryRun THEN [r EXCEPT !.content = rendered.out]
    ELSE CheckOverwrite([r EXCEPT !.content = rendered.out])

\* the body of the loop of interactiveParameterInput for a parameter that
\* has no entry yet: the prompt, then typed, the line fmt.Scanln read, ""
\* for a scan error
Prompted(param, acc, typed) ==
    IF typed = "" /\ param.Default = "" /\ param.Required
      THEN [acc EXCEPT !.prompts = Append(@, param.Name), !.lines = Tail(@),
                       !.err = "missing required parameter: " \o param.Name]
    ELSE IF typed = "" /\ param.Default = ""
      THEN [acc EXCEPT !.prompts = Append(@, param.Name), !.lines = Tail(@)]
    ELSE [acc EXCEPT !.prompts = Append(@, param.Name), !.lines = Tail(@),
                     !.params = Put(@, param.Name,
                                    IF typed = "" THEN param.Default ELSE typed)]

\* for _, param := range tmpl.Metadata.Parameters { ... }; standard input
\* at its end reads as empty lines
RECURSIVE PromptLoop(_, _)
PromptLoop(parameters, acc) ==
    IF parameters = <<>> \/ acc.err # "" THEN acc
    ELSE IF Head(parameters).Name \in DOMAIN acc.params
      THEN PromptLoop(Tail(parameters), acc)
    ELSE PromptLoop(Tail(parameters),
                    Prompted(Head(parameters),
                             IF acc.lines = <<>>
                               THEN [acc EXCEPT !.lines = <<"">>] ELSE acc,
                             IF acc.lines = <<>> THEN "" ELSE Head(acc.lines)))

\* func interactiveParameterInput(tmpl, existingParams): the mapping and the
\* error it returns, the names it prompted for and the lines left unread
interactiveParameterInput(t, existingParams, lines) ==
    PromptLoop(t.Metadata.Parameters,
               [params |-> existingParams, err |-> "", prompts |-> <<>>,
                lines |-> lines])

\* content, err = tmpl.RenderWithValidation(params), after the parameter
\* help of a dry run without parameters
RenderParams(r, t, params) ==
    IF params = EmptyMap /\ r.in.dryRun THEN r
    ELSE DryRunPreview(r, RenderWithValidation(t, params))

\* params, err = interactiveParameterInput(tmpl, params) returned input, in
\* the branch of a template with parameters
InputParams(r, t, input) ==
    IF input.err # ""
      THEN [r EXCEPT !.prompts = @ \o input.prompts,
                     !.err = "interactive input failed: " \o input.err]
    ELSE RenderParams([r EXCEPT !.prompts = @ \o input.prompts], t, input.params)

\* if tmpl.Metadata != nil && len(tmpl.Metadata.Parameters) > 0 { ... } else
\* { ... }: interactive is the flag as it is now, response the answer to
\* "Enter parameters interactively? (Y/n)"
WithParameters(r, t, params, lines, interactive) ==
    IF Len(t.Metadata.Parameters) = 0 THEN DryRunPreview(r, Render(t, params))
    ELSE IF params = EmptyMap /\ ~interactive /\ ~r.in.dryRun
      THEN (IF r.in.response \in {"", "y", "Y", "yes"}
              THEN InputParams(r, t, interactiveParameterInput(t, params, lines))
            ELSE r)
    ELSE IF interactive
      THEN InputParams(r, t, interactiveParameterInput(t, params, lines))
    ELSE RenderParams(r, t, params)

\* if interactive { params, err = interactiveParameterInput(tmpl, params) },
\* the call before the branch on the parameters of the template
InteractiveFlag(r, t, input) ==
    IF input.err # ""
      THEN [r EXCEPT !.prompts = input.prompts,
                     !.err = "interactive input failed: " \o input.err]
    ELSE WithParameters([r EXCEPT !.prompts = input.prompts], t, input.params,
                        input.lines, TRUE)

\* func runGenerate(cmd, args) error with --template, loaded the return of
\* LoadTemplate and params the mapping of the --set flags
runGenerate(r, loaded, params) ==
    IF loaded.err # ""
      THEN [r EXCEPT !.err = "failed to load template: " \o loaded.err]
    ELSE IF r.in.interactive
      THEN InteractiveFlag(r, loaded.tmpl,
                           interactiveParameterInput(loaded.tmpl, params,
                                                     r.in.lines))
    ELSE WithParameters(r, loaded.tmpl, params, r.in.lines, FALSE)

(***************************************************************************)
(* cmd/enable.go, cmd/disable.go, cmd/delete.go and filesystem/file.go.  A *)
(* host is the configuration directory (configs: content by file name),    *)
(* the directory sites-enabled where it exists (enabled: by name, a        *)
(* regular file or a symlink with its target in the configuration          *)
(* directory) and the last command run on it: its name, argument, flags    *)
(* and outcomes (in), the directories before it, the calls it made that    *)
(* changed something or ran nginx (trail) and the error it returned.       *)
(***************************************************************************)

\* a host no command has run on
NoHost ==
    [configs |-> <<>>, enabled |-> <<>>, hasEnabled |-> FALSE,
     generated |-> {}, cmd |-> "", arg |-> "", in |-> <<>>,
     before |-> <<>>, trail |-> <<>>, err |-> ""]

\* filename := templateName + ".conf" of getOutputPath
getOutputPath(configName) == configName \o ".conf"

\* m without the entry of key
Drop(m, key) == [k \in (DOMAIN m) \ {key} |-> m[k]]

\* utils.FileExists on a path of sites-enabled: os.Stat follows a symlink
EnabledExists(h, entry) ==
    /\ entry \in DOMAIN h.enabled
    /\ h.enabled[entry].link => h.enabled[entry].target \in DOMAIN h.configs

\* a command starts: what the last one left is gone, the directories are
\* remembered
Started(h, cmd, arg, inputs) ==
    [h EXCEPT !.cmd = cmd, !.arg = arg, !.in = inputs, !.trail = <<>>,
              !.err = "",
              !.before = [configs |-> h.configs, enabled |-> h.enabled]]

\* system.NginxReload() unless --no-reload; its failure is a warning
Reloaded(h) ==
    IF h.in.noReload THEN h ELSE Did(h, "reload", h.in.reloadOk)

\* func CreateSymlink(src, dst string) error, src existing: linkErr is "",
\* "remove" when os.Remove of the existing dst fails and "symlink" when
\* os.Symlink fails
CreateSymlink(h, src, dst, linkErr) ==
    IF linkErr = "remove" /\ dst \in DOMAIN h.enabled
      THEN [h EXCEPT !.err = "failed to remove existing symlink " \o dst]
    ELSE IF linkErr # ""
      THEN [Did([h EXCEPT !.enabled = Drop(@, dst)], "symlink", FALSE)
               EXCEPT !.err = "failed to create symlink " \o dst \o " -> " \o src]
    ELSE Did([h EXCEPT !.enabled = Put(@, dst, [link |-> TRUE, target |-> src])],
             "symlink", TRUE)

\* RemoveSymlink without the test of info.Mode()&os.ModeSymlink
RemoveAny(h, entry, removeOk) ==
    IF entry \notin DOMAIN h.enabled THEN h
    ELSE IF ~removeOk
      THEN [Did(h, "remove", FALSE) EXCEPT
               !.err = "failed to remove symlink " \o entry]
    ELSE Did([h EXCEPT !.enabled = Drop(@, entry)], "remove", TRUE)

\* func RemoveSymlink(path string) error
RemoveSymlink(h, entry, removeOk) ==
    IF entry \notin DOMAIN h.enabled THEN h
    ELSE IF ~h.enabled[entry].link
      THEN [h EXCEPT !.err = entry \o " is not a symbolic link"]
    ELSE IF ~removeOk
      THEN [Did(h, "remove", FALSE) EXCEPT
               !.err = "failed to remove symlink " \o entry]
    ELSE Did([h EXCEPT !.enabled = Drop(@, entry)], "remove", TRUE)

\* the rest of a command after a call of filesystem returned: its error
\* ends the command
Then(h, message, rest) ==
    IF h.err # "" THEN [h EXCEPT !.err = message \o ": " \o @] ELSE rest

\* func runEnable(cmd, args) error
runEnable(h, configName) ==
    IF ~h.hasEnabled THEN [h EXCEPT !.err = "sites-enabled directory not found"]
    ELSE IF configName \notin DOMAIN h.configs
      THEN [h EXCEPT !.err = "configuration file not found: "
                               \o "/etc/nginx/sites-available/" \o configName]
    ELSE Then(CreateSymlink(h, configName, configName, h.in.linkErr),
              "failed to enable configuration",
              Reloaded(CreateSymlink(h, configName, configName, h.in.linkErr)))

\* func runDisable(cmd, args) error from targetPath on
DisableTarget(h, configName, target) ==
    IF ~EnabledExists(h, target)
      THEN [h EXCEPT !.err = "configuration not enabled: " \o configName]
    ELSE Then(RemoveSymlink(h, target, h.in.removeOk),
              "failed to disable configuration",
              Reloaded(RemoveSymlink(h, target, h.in.removeOk)))

\* func runDisable(cmd, args) error
runDisable(h, configName) ==
    IF ~h.hasEnabled THEN [h EXCEPT !.err = "sites-enabled directory not found"]
    ELSE DisableTarget(h, configName,
                       IF EnabledExists(h, configName) THEN configName
                       ELSE configName \o ".conf")

\* filesystem.DeleteFile(configPath) and the rest of runDelete
DeleteConfig(h, configName) ==
    IF ~h.in.deleteOk
      THEN [Did(h, "delete", FALSE) EXCEPT
               !.err = "failed to delete configuration: failed to delete file "
                         \o configName]
    ELSE Reloaded(Did([h EXCEPT !.configs = Drop(@, configName),
                                !.generated =
                                    {g \in @ : getOutputPath(g) # configName}],
                      "delete", TRUE))

\* func runDelete(cmd, args) error: a failed RemoveSymlink is a warning
runDelete(h, configName) ==
    IF configName \notin DOMAIN h.configs
      THEN [h EXCEPT !.err = "configuration file not found: "
                               \o "/etc/nginx/sites-available/" \o configName]
    ELSE IF ~h.in.force /\ h.in.answer \notin {"y", "Y", "yes"} THEN h
    ELSE IF h.hasEnabled /\ EnabledExists(h, configName)
      THEN DeleteConfig([RemoveSymlink(h, configName, h.in.removeOk)
                            EXCEPT !.err = ""], configName)
    ELSE DeleteConfig(h, configName)

\* what a run r of generate leaves on the host: the file at the output
\* path and its entry in sites-enabled
Generated(h, configName, r) ==
    [h EXCEPT !.configs = IF r.config = <<>> THEN @
                          ELSE Put(@, getOutputPath(configName), r.config[1]),
              !.enabled = IF [step |-> "symlink", ok |-> TRUE] \in
                                 {r.trail[i] : i \in DOMAIN r.trail}
                            THEN Put(@, getOutputPath(configName),
                                     [link |-> TRUE,
                                      target |-> getOutputPath(configName)])
                          ELSE @,
              !.generated = IF [step |-> "write", ok |-> TRUE] \in
                                   {r.trail[i] : i \in DOMAIN r.trail}
                              THEN @ \cup {configName} ELSE @,
              !.trail = r.trail, !.err = r.err]

(***************************************************************************)
(* The inputs: a template directory holding one template file, whose       *)
(* header is a run of @param lines and whose body is one line, and the     *)
(* parameter mappings a caller passes.                                     *)
(***************************************************************************)

\* the most @param lines a template header of the model declares
MaxParamLines == 2

ParamLines ==
    {"# @param port integer required \"Server port\"",
     "# @param port integer optional \"Server port\" default=8080",
     "# @param port string required \"Upstream port\" default=9090",
     "# @param ssl boolean required \"Enable SSL\"",
     "# @param ssl boolean optional \"Enable SSL\" default=false",
     "# @param ssl string optional \"TLS mode\" default=on options=[on,off]"}

BodyLines == {"listen {{.port}};", "listen {{port}};"}

Headers == UNION {[1..n -> ParamLines] : n \in 0..MaxParamLines}

\* each header line followed by a newline, then the body line
RECURSIVE HeaderText(_)
HeaderText(h) == IF h = <<>> THEN "" ELSE Head(h) \o "\n" \o HeaderText(Tail(h))

TemplateTexts == {HeaderText(h) \o b : h \in Headers, b \in BodyLines}

TemplateDir == "/root/.ngcli/templates"

\* the template directory holding one template file with the text, next
\* to a directory of a template's name
DirectoryOf(text) ==
    [f \in {"site.conf.tpl", "backup.conf.tpl"} |->
        IF f = "site.conf.tpl" THEN File(text) ELSE Directory]

Directories == {DirectoryOf(text) : text \in TemplateTexts}

LoadNames == {"site", "site.conf.tpl", "backup", "prod"}

ParamNames == {"port", "ssl"}

ParamValues == {"", "8080", "true", "True", " true", "maybe", "on"}

ParamMaps == UNION {[keys -> ParamValues] : keys \in SUBSET ParamNames}

\* the inputs of the type and options checks: templates declaring one
\* parameter, value, of each type with and without an options list, alone
\* or after a required parameter the caller never passes
ParamTypes == {"string", "integer", "boolean", "file_path", "array"}

OptionAttrs == {"", " options=[on,off]", " options=[80,443,true]"}

TypedLines ==
    {"# @param value " \o t \o " required \"A value\"" \o a :
        t \in ParamTypes, a \in OptionAttrs}

TypedTexts ==
    {h \o l \o "\nlisten {{.value}};" :
        h \in {"", "# @param port integer required \"Server port\"\n"},
        l \in TypedLines}

TypedValues ==
    {"", " ", "0", "80", "+80", "-80", "443", "4a3", " 80", "80 ", "+", "-",
     "0x50", "8e1", "00000000000000000000080",
     "9223372036854775807", "9223372036854775808",
     "-9223372036854775808", "-9223372036854775809",
     "on", "On", "off", "maybe", "true"}

TypedMaps == {[k \in {"value"} |-> v] : v \in TypedValues}

\* the inputs of the metadata parser: a header of metadata lines, @param
\* lines and lines that match none of the five patterns, then the first
\* line of the body and what follows it
MaxHeaderLines == 2

MetadataLines ==
    {"# Template: api-server", "#Description:API server with SSL",
     "  # Author:   your-name  ", "# Version: 1.0",
     "# Author: Template: me",
     "# Description: see @param port integer required \"Port\""}

DeclarationLines ==
    {"# @param domain string required \"Primary domain\"",
     "# @param port integer optional \"Server port\" default=3000",
     "\t#@param   port   number   required   \"Port\""}

UnmatchedLines ==
    {"", "# free-form comment", "# Template:",
     "# @param port integer \"Server port\"",
     "# @param port integer required Server port",
     "# @param cache-size integer required \"Cache size\"",
     "# @param port integer required \"\"",
     "# @Param port integer required \"Server port\""}

HeaderLines == MetadataLines \cup DeclarationLines \cup UnmatchedLines

BodyStart == "server {"

BodyRests ==
    {"",
     "\n\n# Template: late\n# Version: 9\n# @param late string required \"Late\"\n}"}

ParseTexts ==
    {HeaderText(h) \o BodyStart \o rest :
        h \in UNION {[1..n -> HeaderLines] : n \in 0..MaxHeaderLines},
        rest \in BodyRests}

\* the inputs of the round trip: well-formed declarations, each with the
\* ways its attributes can be written (the default bare or quoted, the
\* options bare or quoted, either attribute first), and the @param line
\* of each
WellFormedDefaults ==
    {[value |-> "", quoted |-> FALSE],
     [value |-> "3000", quoted |-> FALSE], [value |-> "3000", quoted |-> TRUE],
     [value |-> "fast", quoted |-> FALSE], [value |-> "fast", quoted |-> TRUE],
     [value |-> "hello world", quoted |-> TRUE],
     [value |-> "a,b", quoted |-> TRUE]}

WellFormed ==
    {[info |-> ParameterInfo(n, t, r, "Primary domain", d.value, o),
      quotedDefault |-> d.quoted, quotedOptions |-> q, optionsFirst |-> f] :
        n \in {"domain", "cache_size"}, t \in {"string", "file_path"},
        r \in BOOLEAN, d \in WellFormedDefaults,
        o \in {<<>>, <<"fast", "slow">>}, q \in BOOLEAN, f \in BOOLEAN}

Quoted(text) == "\"" \o text \o "\""

DefaultAttr(form) ==
    IF form.info.Default = "" THEN ""
    ELSE " default=" \o (IF form.quotedDefault THEN Quoted(form.info.Default)
                         ELSE form.info.Default)

OptionsAttr(form) ==
    IF form.info.Options = <<>> THEN ""
    ELSE " options=["
           \o Join([i \in DOMAIN form.info.Options |->
                       IF form.quotedOptions THEN Quoted(form.info.Options[i])
                       ELSE form.info.Options[i]], ",")
           \o "]"

FormatParam(form) ==
    "# @param " \o form.info.Name \o " " \o form.info.Type \o " "
        \o (IF form.info.Required THEN "required" ELSE "optional") \o " "
        \o Quoted(form.info.Description)
        \o (IF form.optionsFirst THEN OptionsAttr(form) \o DefaultAttr(form)
            ELSE DefaultAttr(form) \o OptionsAttr(form))

RoundTripText(form) == FormatParam(form) \o "\n" \o BodyStart

\* the inputs of the listing: every choice of absent, file or directory
\* for the names of EntryOrder, the directory sub holding a template file
ListDirectories ==
    {IF "sub" \in DOMAIN d /\ d["sub"].IsDir
       THEN d @@ ("sub/z.conf.tpl" :> File(""))
     ELSE d :
        d \in UNION {[names -> {File(""), Directory}] :
                        names \in SUBSET Range(EntryOrder)}}

\* two callers, each holding a *Template of its own
Instances == {"A", "B"}

\* the mapping each caller renders with
OwnParams(w) == IF w = "A" THEN [domain |-> "a.com"] ELSE [domain |-> "b.com"]

\* the template files the two callers load: with no header, with a required
\* domain and a defaulted port, or with a domain neither caller passes
RenderTexts ==
    {header \o body :
        header \in {"",
                    "# @param domain string required \"Domain\"\n"
                        \o "# @param port int optional \"Port\" default=80\n",
                    "# @param domain string required \"Domain\" options=[example.org]\n"},
        body \in {"server_name {{.domain}};",
                  "server_name {{.domain}} www.{{.domain}};\nlisten {{.port}};"}}

(***************************************************************************)
(* The state machine: one process holding a template directory, loading a  *)
(* template from it and calling the template's methods.                    *)
(***************************************************************************)

VARIABLES
    files,      \* the entries of the template directory, by file name
    tmpl,       \* the *Template LoadTemplate returned, NoTemplate before
    templateName, \* the name LoadTemplate was called with last
    op,         \* the call whose results the caller holds: "start" before
                \* any, "idle" once the caller has dropped them
    params,     \* the mapping passed to the last call
    passed,     \* the caller's mapping as it is after the last call
    resolved,   \* the mapping ApplyDefaults returned in the last call
    missing,    \* ValidateParameters' local missing at its return
    invalid,    \* ValidateParameters' local invalid at its return
    out,        \* the string the last call returned
    err,        \* the error the last call returned, "" for nil
    calls,      \* the methods the last call invoked, in order
    templates,  \* the names ListTemplates returned in the last call
    instances,  \* the *Template values of two callers, A and B, each with
                \* the locals of the call it is in
    run,        \* the last run of the generate command: its flags and
                \* environment, the files it left and what it did, in order
    host        \* the nginx directories and the last command run on them

vars ==
    <<files, tmpl, templateName, op, params, passed, resolved, missing, invalid,
      out, err, calls, templates, instances, run, host>>

\* the process starts with one of the directories and nothing loaded
InitWith(directories, hosts) ==
    /\ files \in directories
    /\ host \in hosts
    /\ tmpl = NoTemplate
    /\ templateName = ""
    /\ op = "start"
    /\ params = EmptyMap
    /\ passed = EmptyMap
    /\ resolved = EmptyMap
    /\ missing = <<>>
    /\ invalid = <<>>
    /\ out = ""
    /\ err = ""
    /\ calls = <<>>
    /\ templates = <<>>
    /\ instances =
           [w \in Instances |->
               [tmpl |-> NoTemplate, pc |-> "unloaded", validated |-> FALSE,
                using |-> EmptyMap, todo |-> <<>>, output |-> "",
                interleaved |-> FALSE, out |-> "", err |-> ""]]
    /\ run = NoRun

\* the same start on a host no command of the configuration management runs
\* on
InitFrom(directories) == InitWith(directories, {NoHost})

Init == InitFrom(Directories)

\* a template is loaded and no call's results are pending
Ready == tmpl # NoTemplate /\ op \in {"LoadTemplate", "idle"}

\* a method whose result is the mapping it was passed, with the defaults
\* written into it
CallerParamsShared(p, result) == IF result = EmptyMap THEN p ELSE result

\* the caller's mapping after a call that was passed p and built result:
\* result := make(map[string]string) is a map of its own, so what
\* ApplyDefaults writes to it does not reach the mapping of the caller, and
\* no other method writes to a mapping
CallerParams(p, result) == p

\* the caller receives what the call handed back
Returns(method, p, r) ==
    /\ op' = method
    /\ params' = p
    /\ passed' = CallerParams(p, r.resolved)
    /\ resolved' = r.resolved
    /\ missing' = r.missing
    /\ invalid' = r.invalid
    /\ out' = r.out
    /\ err' = r.err
    /\ calls' = r.calls

Loaded(r) ==
    /\ tmpl' = r.tmpl
    /\ Returns("LoadTemplate", EmptyMap,
               Result("", r.err, EmptyMap, <<>>, <<>>, <<"LoadTemplate">>))

\* tmpl, err := template.LoadTemplate(name, templateDir)
CallLoadTemplate(n) ==
    /\ tmpl = NoTemplate
    /\ templateName' = n
    /\ Loaded(LoadTemplate(n, TemplateDir, files))
    /\ UNCHANGED <<files, templates, instances, run, host>>

\* tmpl.Metadata.ApplyDefaults(p)
CallApplyDefaults(p) ==
    /\ Ready
    /\ Returns("ApplyDefaults", p,
               Result("", "", ApplyDefaults(tmpl.Metadata, p), <<>>, <<>>,
                      <<"ApplyDefaults">>))
    /\ UNCHANGED <<files, tmpl, templateName, templates, instances, run, host>>

Validated(p, v) ==
    Returns("ValidateParameters", p,
            Result("", v.err, EmptyMap, v.missing, v.invalid,
                   <<"ValidateParameters">>))

\* tmpl.Metadata.ValidateParameters(p)
CallValidateParameters(p) ==
    /\ Ready
    /\ Validated(p, ValidateParameters(tmpl.Metadata, p))
    /\ UNCHANGED <<files, tmpl, templateName, templates, instances, run, host>>

\* tmpl.Render(p)
CallRender(p) ==
    /\ Ready
    /\ Returns("Render", p, Render(tmpl, p))
    /\ UNCHANGED <<files, tmpl, templateName, templates, instances, run, host>>

\* tmpl.RenderWithValidation(p)
CallRenderWithValidation(p) ==
    /\ Ready
    /\ Returns("RenderWithValidation", p, RenderWithValidation(tmpl, p))
    /\ UNCHANGED <<files, tmpl, templateName, templates, instances, run, host>>

\* tmpl.Metadata.GetParameterHelp()
CallGetParameterHelp ==
    /\ Ready
    /\ Returns("GetParameterHelp", EmptyMap,
               Result(GetParameterHelp(tmpl.Metadata), "", EmptyMap, <<>>, <<>>,
                      <<"GetParameterHelp">>))
    /\ UNCHANGED <<files, tmpl, templateName, templates, instances, run, host>>

\* the caller is done with the results of a method call and goes on
Return ==
    /\ tmpl # NoTemplate
    /\ op \notin {"LoadTemplate", "idle"}
    /\ op' = "idle"
    /\ params' = EmptyMap
    /\ passed' = EmptyMap
    /\ resolved' = EmptyMap
    /\ missing' = <<>>
    /\ invalid' = <<>>
    /\ out' = ""
    /\ err' = ""
    /\ calls' = <<>>
    /\ UNCHANGED <<files, tmpl, templateName, templates, instances, run, host>>

Next ==
    \/ \E n \in LoadNames : CallLoadTemplate(n)
    \/ \E p \in ParamMaps : CallApplyDefaults(p)
    \/ \E p \in ParamMaps : CallValidateParameters(p)
    \/ \E p \in ParamMaps : CallRender(p)
    \/ \E p \in ParamMaps : CallRenderWithValidation(p)
    \/ CallGetParameterHelp
    \/ Return

Spec == Init /\ [][Next]_vars

\* templates, err := template.ListTemplates(templateDir), where reading the
\* directory succeeds or fails
CallListTemplates(readErr) ==
    /\ op = "start"
    /\ op' = "ListTemplates"
    /\ templates' = ListTemplates(TemplateDir, files, readErr).templates
    /\ err' = ListTemplates(TemplateDir, files, readErr).err
    /\ calls' = <<"ListTemplates">>
    /\ UNCHANGED <<files, tmpl, templateName, params, passed, resolved,
                   missing, invalid, out, instances, run, host>>

\* the same process listing the templates of a directory
NextList == \E readErr \in {"", "permission denied"} : CallListTemplates(readErr)

SpecList == InitFrom(ListDirectories) /\ [][NextList]_vars

\* what the actions of the two callers leave alone
callerVars ==
    <<files, tmpl, templateName, op, params, passed, resolved, missing, invalid,
      out, err, calls, templates, run, host>>

\* caller w: tmpl, err := template.LoadTemplate(n, templateDir)
LoadInstance(w, n) ==
    /\ instances[w].pc = "unloaded"
    /\ LoadTemplate(n, TemplateDir, files).err = ""
    /\ instances' =
           [instances EXCEPT ![w].tmpl = LoadTemplate(n, TemplateDir, files).tmpl,
                             ![w].pc = "loaded"]
    /\ UNCHANGED callerVars

\* the call has its mapping and the error of the validation: a failed
\* validation returns, otherwise var output strings.Builder starts empty
\* and Execute starts at the first node of the template's own tree
Begun(inst, validated, using, verr) ==
    IF verr # ""
      THEN [inst EXCEPT !.pc = "done", !.validated = validated,
                        !.using = using, !.todo = <<>>, !.output = "",
                        !.interleaved = FALSE, !.out = "", !.err = verr]
    ELSE [inst EXCEPT !.pc = "rendering", !.validated = validated,
                      !.using = using, !.todo = inst.tmpl.Template,
                      !.output = "", !.interleaved = FALSE, !.out = "",
                      !.err = ""]

BegunValidated(inst, paramsWithDefaults) ==
    Begun(inst, TRUE, paramsWithDefaults,
          ValidateParameters(inst.tmpl.Metadata, paramsWithDefaults).err)

\* caller w enters tmpl.Render or tmpl.RenderWithValidation with its mapping
BeginRender(w, validated) ==
    /\ instances[w].pc \in {"loaded", "done"}
    /\ instances' =
           [instances EXCEPT ![w] =
               IF validated
                 THEN BegunValidated(@, ApplyDefaults(@.tmpl.Metadata, OwnParams(w)))
               ELSE Begun(@, FALSE, OwnParams(w), "")]
    /\ UNCHANGED callerVars

\* an Execute whose writer is one buffer for every call
WrittenShared(insts, w, text) ==
    [v \in DOMAIN insts |-> [insts[v] EXCEPT !.output = @ \o text]]

\* Execute writes a node to the strings.Builder of the call it runs in
Written(insts, w, text) == [insts EXCEPT ![w].output = @ \o text]

\* the Execute of caller w evaluates its next node, the other caller being
\* anywhere in its own call
WriteNode(w) ==
    /\ instances[w].pc = "rendering"
    /\ instances[w].todo # <<>>
    /\ instances' =
           Written([instances EXCEPT
                       ![w].todo = Tail(@),
                       ![w].interleaved =
                           @ \/ \E v \in Instances \ {w} :
                                    /\ instances[v].pc = "rendering"
                                    /\ instances[v].output # ""],
                   w, ExecuteNode(Head(instances[w].todo), instances[w].using))
    /\ UNCHANGED callerVars

\* return output.String(), nil
FinishRender(w) ==
    /\ instances[w].pc = "rendering"
    /\ instances[w].todo = <<>>
    /\ instances' = [instances EXCEPT ![w].pc = "done", ![w].out = instances[w].output]
    /\ UNCHANGED callerVars

\* two callers loading and rendering in any interleaving
NextRender ==
    \E w \in Instances :
        \/ \E n \in {"a", "b"} : LoadInstance(w, n)
        \/ \E validated \in BOOLEAN : BeginRender(w, validated)
        \/ WriteNode(w)
        \/ FinishRender(w)

SpecRender ==
    /\ InitFrom({[f \in {"a.conf.tpl", "b.conf.tpl"} |->
                     File(IF f = "a.conf.tpl" THEN a ELSE b)] :
                    a \in RenderTexts, b \in RenderTexts})
    /\ [][NextRender]_vars

\* ngcli generate site --template n --set ..., started with the flags, the
\* environment and the outcomes of the calls to the system in inputs
CallGenerate(n, p, inputs) ==
    /\ ~run.done
    /\ run' = [runGenerate([NoRun EXCEPT !.in = inputs, !.set = p,
                                         !.config = inputs.existing,
                                         !.link = inputs.linked],
                           LoadTemplate(n, TemplateDir, files), p)
                  EXCEPT !.done = TRUE]
    /\ UNCHANGED <<files, tmpl, templateName, op, params, passed, resolved,
                   missing, invalid, out, err, calls, templates, instances,
                   host>>

\* one run of generate without --interactive in every environment, the
\* question whether to enter the parameters interactively answered with no;
\* the outcome of a call the run cannot reach is left at one value
NextGenerate ==
    \E n \in {"site", "prod"},
       p \in {EmptyMap, [domain |-> "a.com"], [domain |-> "example.org"]},
       inputs \in {i \in [dryRun : BOOLEAN, hasEnabled : BOOLEAN,
                          existing : {<<>>, <<"old">>},
                          linked : {<<>>, <<"old">>},
                          answer : {"", "n", "y", "Y", "yes", "Yes"},
                          backupOk : BOOLEAN, writeOk : BOOLEAN,
                          writeErr : {"permission denied"}, testOk : BOOLEAN,
                          linkErr : {"", "remove", "symlink"},
                          reloadOk : BOOLEAN, interactive : {FALSE},
                          response : {"n"}, lines : {<<>>}] :
                      /\ i.existing = <<>> => i.answer = "" /\ i.backupOk
                      /\ ~i.hasEnabled => i.linkErr = "" /\ i.linked = <<>>
                      /\ i.dryRun => /\ i.answer = "" /\ i.backupOk
                                     /\ i.writeOk /\ i.testOk /\ i.reloadOk} :
        CallGenerate(n, p, inputs)

SpecGenerate ==
    /\ InitFrom({DirectoryOf(text) : text \in RenderTexts})
    /\ [][NextGenerate]_vars

\* ngcli generate configName --template site --set domain=a.com on the
\* host, the file of a former run overwritten on the answer y, every call to
\* the system succeeding
GenerateOn(configName) ==
    /\ host' =
           Generated(Started(host, "generate", configName, <<>>), configName,
                     runGenerate(
                         [NoRun EXCEPT
                             !.in = [dryRun |-> FALSE,
                                     hasEnabled |-> host.hasEnabled,
                                     answer |-> "y", backupOk |-> TRUE,
                                     writeOk |-> TRUE, writeErr |-> "",
                                     testOk |-> TRUE, linkErr |-> "",
                                     reloadOk |-> TRUE, interactive |-> FALSE,
                                     response |-> "n", lines |-> <<>>],
                             !.set = [domain |-> "a.com"],
                             !.config =
                                 IF getOutputPath(configName) \in DOMAIN host.configs
                                   THEN <<host.configs[getOutputPath(configName)]>>
                                   ELSE <<>>,
                             !.link = <<>>],
                         LoadTemplate("site", TemplateDir, files),
                         [domain |-> "a.com"]))
    /\ UNCHANGED <<files, tmpl, templateName, op, params, passed, resolved,
                   missing, invalid, out, err, calls, templates, instances,
                   run>>

\* ngcli enable configName
CallEnable(configName, inputs) ==
    /\ host' = runEnable(Started(host, "enable", configName, inputs), configName)
    /\ UNCHANGED <<files, tmpl, templateName, op, params, passed, resolved,
                   missing, invalid, out, err, calls, templates, instances,
                   run>>

\* ngcli disable configName
CallDisable(configName, inputs) ==
    /\ host' = runDisable(Started(host, "disable", configName, inputs),
                          configName)
    /\ UNCHANGED <<files, tmpl, templateName, op, params, passed, resolved,
                   missing, invalid, out, err, calls, templates, instances,
                   run>>

\* ngcli delete configName
CallDelete(configName, inputs) ==
    /\ host' = runDelete(Started(host, "delete", configName, inputs), configName)
    /\ UNCHANGED <<files, tmpl, templateName, op, params, passed, resolved,
                   missing, invalid, out, err, calls, templates, instances,
                   run>>

\* the commands of the configuration management in any order, on the names
\* the documented workflow uses: the config name and the name of its file
NextHost ==
    \/ \E n \in {"mysite"} : GenerateOn(n)
    \/ \E n \in {"mysite", "mysite.conf"},
          inputs \in [noReload : BOOLEAN, reloadOk : BOOLEAN,
                      linkErr : {"", "remove", "symlink"}] :
           CallEnable(n, inputs)
    \/ \E n \in {"mysite", "mysite.conf"},
          inputs \in [noReload : BOOLEAN, reloadOk : BOOLEAN,
                      removeOk : BOOLEAN] :
           CallDisable(n, inputs)
    \/ \E n \in {"mysite", "mysite.conf"},
          inputs \in [noReload : BOOLEAN, reloadOk : BOOLEAN,
                      removeOk : BOOLEAN, deleteOk : BOOLEAN, force : BOOLEAN,
                      answer : {"", "n", "y", "Y", "yes", "Yes"}] :
           /\ inputs.force => inputs.answer = ""
           /\ CallDelete(n, inputs)

\* a host with or without sites-enabled, holding any of a configuration
\* written by hand, a regular file in sites-enabled and a symlink whose
\* target is gone
SpecHost ==
    /\ InitWith({DirectoryOf("# @param domain string required \"Domain\"\n"
                               \o "server_name {{.domain}};")},
                {[NoHost EXCEPT !.hasEnabled = l # <<>> \/ e, !.configs = c,
                                !.enabled = l] :
                    e \in BOOLEAN,
                    c \in {<<>>, [mysite |-> "by hand"]},
                    l \in {<<>>,
                           [mysite |-> [link |-> FALSE, target |-> ""]],
                           [mysite |-> [link |-> TRUE, target |-> "gone"]],
                           [m \in {"mysite.conf"} |->
                               [link |-> FALSE, target |-> ""]]}})
    /\ [][NextHost]_vars

\* the most lines standard input holds for the prompts of a run
MaxLines == 3

\* one run of generate with or without --interactive and any answer to the
\* question, in an environment where every call to the system succeeds
NextInteractive ==
    \E p \in {EmptyMap, [domain |-> "a.com"], [alias |-> "www"]},
       inputs \in [dryRun : BOOLEAN, hasEnabled : {FALSE}, existing : {<<>>},
                   linked : {<<>>}, answer : {""}, backupOk : {TRUE},
                   writeOk : {TRUE}, writeErr : {""}, testOk : {TRUE},
                   linkErr : {""}, reloadOk : {TRUE}, interactive : BOOLEAN,
                   response : {"", "y", "n"},
                   lines : UNION {[1..n -> {"", "x.org"}] : n \in 0..MaxLines}] :
        CallGenerate("site", p, inputs)

SpecInteractive ==
    /\ InitFrom({DirectoryOf(header \o "server_name {{.domain}} {{.alias}};") :
                    header \in {"",
                                "# @param domain string required \"Domain\"\n"
                                  \o "# @param port integer optional \"Port\" default=80\n"
                                  \o "# @param alias string optional \"Alias\"\n",
                                "# @param alias string optional \"Alias\"\n"
                                  \o "# @param domain string required \"Domain\"\n"}})
    /\ [][NextInteractive]_vars

\* the same process validating the values of one typed parameter
NextTyped ==
    \/ CallLoadTemplate("site")
    \/ \E p \in TypedMaps : CallValidateParameters(p)
    \/ \E p \in TypedMaps : CallRenderWithValidation(p)
    \/ Return

SpecTyped ==
    /\ InitFrom({DirectoryOf(text) : text \in TypedTexts})
    /\ [][NextTyped]_vars

\* the same process loading templates whose headers exercise the parser
NextParse == \E n \in {"site", "site.conf.tpl"} : CallLoadTemplate(n)

SpecParse ==
    /\ InitFrom({DirectoryOf(text) : text \in ParseTexts})
    /\ [][NextParse]_vars

\* the same process loading a template that declares one well-formed
\* parameter
NextRoundTrip == \E n \in {"site", "site.conf.tpl"} : CallLoadTemplate(n)

SpecRoundTrip ==
    /\ InitFrom({DirectoryOf(RoundTripText(form)) : form \in WellFormed})
    /\ [][NextRoundTrip]_vars

(***************************************************************************)
(* Properties.                                                             *)
(***************************************************************************)

\* sub occurs in s
Contains(s, sub) == \E i \in 1..(Len(s) - Len(sub) + 1) : LitAt(s, i, sub)

\* the parameters the loaded template declares
Declared == tmpl.Metadata.Parameters

DeclaredNames == {Declared[i].Name : i \in DOMAIN Declared}

\* the last call ran ValidateParameters
Validating == op \in {"ValidateParameters", "RenderWithValidation"}

\* the mapping ValidateParameters was given in the last call
Checked == IF op = "RenderWithValidation" THEN resolved ELSE params

\* the declarations that are required while their key is absent
AbsentRequired ==
    {i \in DOMAIN Declared :
        Declared[i].Required /\ Declared[i].Name \notin DOMAIN Checked}

\* the declarations whose key is present with a value that fails the check
FailingPresent ==
    {i \in DOMAIN Declared :
        /\ Declared[i].Name \in DOMAIN Checked
        /\ validateParameterValue(Declared[i], Checked[Declared[i].Name]) # ""}

\* the entry of invalid a failing declaration i yields
InvalidEntry(i) ==
    Declared[i].Name \o ": "
        \o validateParameterValue(Declared[i], Checked[Declared[i].Name])

\* the names of the declarations in idx, in declaration order
RECURSIVE NamesAt(_, _)
NamesAt(i, idx) ==
    IF i > Len(Declared) THEN <<>>
    ELSE (IF i \in idx THEN <<Declared[i].Name>> ELSE <<>>) \o NamesAt(i + 1, idx)

\* how often x occurs in seq
Count(seq, x) == Cardinality({i \in DOMAIN seq : seq[i] = x})

\* C1: whenever a required parameter is absent and a present parameter fails
\* its type/options check, the one error ValidateParameters returns lists
\* every missing name and every invalid "name: reason" entry.
C1_CompositeError ==
    (Validating /\ AbsentRequired # {} /\ FailingPresent # {}) =>
        /\ \A i \in AbsentRequired : Contains(err, Declared[i].Name)
        /\ \A i \in FailingPresent : Contains(err, InvalidEntry(i))

\* C2: validation does not stop at the first problem: the error names every
\* required parameter whose key is absent, in declaration order, joined by
\* ", ", whatever else is wrong with the mapping.
C2_AllMissingNamed ==
    (Validating /\ AbsentRequired # {}) =>
        err = "missing required parameters: "
                \o Join(NamesAt(1, AbsentRequired), ", ")

C2_Witness ==
    /\ op = "ValidateParameters"
    /\ Cardinality({Declared[i].Name : i \in AbsentRequired}) >= 2

\* the first declaration of name n that carries a non-empty default
FirstDefault(n) ==
    Declared[Least({i \in DOMAIN Declared :
                      Declared[i].Name = n /\ Declared[i].Default # ""})].Default

\* the names ApplyDefaults has a default for that the caller did not pass
Defaultable ==
    {Declared[i].Name : i \in {j \in DOMAIN Declared : Declared[j].Default # ""}}
        \ DOMAIN params

\* C3 as stated: ApplyDefaults keeps every entry of params and adds
\* name -> default for exactly the declarations whose name is not a key of
\* params and whose default is non-empty.
C3_DefaultOfEveryDeclaration ==
    op = "ApplyDefaults" =>
        /\ \A k \in DOMAIN params : k \in DOMAIN resolved /\ resolved[k] = params[k]
        /\ DOMAIN resolved = DOMAIN params \cup Defaultable
        /\ \A i \in DOMAIN Declared :
               (Declared[i].Name \notin DOMAIN params /\ Declared[i].Default # "")
                   => resolved[Declared[i].Name] = Declared[i].Default

\* C3 as amended: ApplyDefaults keeps every entry of params and adds, for
\* exactly the names that are not keys of params and are declared with a
\* non-empty default, the default of the first such declaration.
C3_DefaultOfFirstDeclaration ==
    op = "ApplyDefaults" =>
        /\ \A k \in DOMAIN params : k \in DOMAIN resolved /\ resolved[k] = params[k]
        /\ DOMAIN resolved = DOMAIN params \cup Defaultable
        /\ \A n \in Defaultable : resolved[n] = FirstDefault(n)

\* two declarations of one name with different non-empty defaults
TwoDefaults(n) ==
    \E i, j \in DOMAIN Declared :
        /\ i < j
        /\ Declared[i].Name = n /\ Declared[j].Name = n
        /\ Declared[i].Default # "" /\ Declared[j].Default # ""
        /\ Declared[i].Default # Declared[j].Default

C3_Witness ==
    /\ op = "ApplyDefaults"
    /\ params # EmptyMap
    /\ \E n \in DOMAIN resolved \ DOMAIN params : TwoDefaults(n)

\* C4: RenderWithValidation is ApplyDefaults, then ValidateParameters, then
\* Render: when validation of the defaulted mapping passes it returns what
\* Render returns for that mapping, and when it fails it returns the
\* validation error with an empty output and never invokes Render.
C4_RenderValidatedIsComposition ==
    op = "RenderWithValidation" =>
        IF ValidateParameters(tmpl.Metadata,
                              ApplyDefaults(tmpl.Metadata, params)).err = ""
          THEN /\ out = Render(tmpl, ApplyDefaults(tmpl.Metadata, params)).out
               /\ err = Render(tmpl, ApplyDefaults(tmpl.Metadata, params)).err
               /\ calls = <<"ApplyDefaults", "ValidateParameters", "Render">>
          ELSE /\ err = ValidateParameters(
                            tmpl.Metadata,
                            ApplyDefaults(tmpl.Metadata, params)).err
               /\ out = ""
               /\ calls = <<"ApplyDefaults", "ValidateParameters">>

C4_Witness ==
    /\ op = "RenderWithValidation"
    /\ err # ""
    /\ resolved # params
    /\ Render(tmpl, resolved).out # ""

\* C5: a declaration is recorded as missing exactly when it is required and
\* its name is not a key of the mapping validated (an empty value is a
\* present key); and RenderWithValidation fails, naming it as missing, for
\* an integer parameter that is required, has no default declared and is
\* absent from the input.
C5_MissingIffRequiredAndAbsent ==
    /\ Validating =>
           \A n \in DeclaredNames \cup Range(missing) :
               Count(missing, n)
                   = Cardinality({i \in AbsentRequired : Declared[i].Name = n})
    /\ op = "RenderWithValidation" =>
           \A i \in DOMAIN Declared :
               ( /\ Declared[i].Type = "integer"
                 /\ Declared[i].Required
                 /\ \A j \in DOMAIN Declared :
                        Declared[j].Name = Declared[i].Name
                            => Declared[j].Default = ""
                 /\ Declared[i].Name \notin DOMAIN params )
               => /\ out = ""
                  /\ HasPrefix(err, "missing required parameters: ")
                  /\ Contains(err, Declared[i].Name)

C5_Witness ==
    /\ op = "ValidateParameters"
    /\ AbsentRequired # {}
    /\ \E i \in DOMAIN Declared :
           /\ Declared[i].Required
           /\ Declared[i].Name \in DOMAIN params
           /\ params[Declared[i].Name] = ""
           /\ Declared[i].Name \notin Range(missing)

\* C6: on the RenderWithValidation path a required parameter that declares
\* a non-empty default is never reported missing, whatever the caller
\* passes.
C6_RequiredWithDefaultNeverMissing ==
    op = "RenderWithValidation" =>
        \A i \in DOMAIN Declared :
            (Declared[i].Required /\ Declared[i].Default # "")
                => /\ Declared[i].Name \notin Range(missing)
                   /\ i \notin AbsentRequired

C6_Witness ==
    /\ op = "RenderWithValidation"
    /\ params = EmptyMap
    /\ err = ""
    /\ \E i \in DOMAIN Declared : Declared[i].Required /\ Declared[i].Default # ""

ScenarioHeader == "# @param port integer optional \"Server port\" default=8080"

\* the two-line template text of the scenario, as the specification has it
ScenarioText == ScenarioHeader \o "\n" \o "listen {{port}};"

\* the same text with the placeholder written as a field of the data
ScenarioFieldText == ScenarioHeader \o "\n" \o "listen {{.port}};"

\* the template file of the directory holds text and is the one loaded
Scenario(text) ==
    /\ files["site.conf.tpl"].Content = text
    /\ templateName \in {"site", "site.conf.tpl"}

\* what the scenario promises of a load, of ApplyDefaults and of
\* RenderWithValidation with the empty mapping
ScenarioHolds ==
    /\ op = "LoadTemplate" => err = "" /\ tmpl # NoTemplate
    /\ (op = "ApplyDefaults" /\ params = EmptyMap)
           => resolved = [port |-> "8080"]
    /\ (op = "RenderWithValidation" /\ params = EmptyMap)
           => /\ err = ""
              /\ resolved = [port |-> "8080"]
              /\ ScanLines(out) = <<ScenarioHeader, "listen 8080;">>

\* C7 as stated: the text whose body line is listen {{port}}; loads, its
\* defaults for the empty mapping are {port: "8080"} and RenderWithValidation
\* succeeds with the body line listen 8080;.
C7_ScenarioRenders == Scenario(ScenarioText) => ScenarioHolds

\* C7 as amended: the same holds of the text whose body line is
\* listen {{.port}};.
C7_FieldScenarioRenders == Scenario(ScenarioFieldText) => ScenarioHolds

C7_Witness ==
    /\ Scenario(ScenarioFieldText)
    /\ op = "RenderWithValidation"
    /\ params = EmptyMap
    /\ out = ScenarioHeader \o "\n" \o "listen 8080;"

\* C8: ApplyDefaults is idempotent, also over declarations that repeat a
\* name with different defaults.
C8_ApplyDefaultsIdempotent ==
    op = "ApplyDefaults" => ApplyDefaults(tmpl.Metadata, resolved) = resolved

C8_Witness ==
    /\ op = "ApplyDefaults"
    /\ params = EmptyMap
    /\ \E n \in DOMAIN resolved : TwoDefaults(n) /\ resolved[n] = FirstDefault(n)

\* the declarations in every order
Reorderings ==
    {[i \in DOMAIN Declared |-> Declared[f[i]]] :
        f \in Permutations(DOMAIN Declared)}

\* the declared names an error message mentions
Reported(message) == {n \in DeclaredNames : Contains(message, n)}

\* the names the entries of an invalid list are about
InvalidNames(entries) ==
    {n \in DeclaredNames :
        \E i \in DOMAIN entries : HasPrefix(entries[i], n \o ": ")}

\* the outcome of validating the mapping params against the declarations
\* in the order given matches the outcome the last call had
SameOutcome(v) ==
    /\ (v.err = "") = (err = "")
    /\ Reported(v.err) = Reported(err)
    /\ Range(v.missing) = Range(missing)
    /\ InvalidNames(v.invalid) = InvalidNames(invalid)

\* C9: for a fixed mapping, every reordering of the declarations gives the
\* same success or failure, the same set of missing names and the same set
\* of invalid names.
C9_ValidateOrderIndependent ==
    op = "ValidateParameters" =>
        \A parameters \in Reorderings :
            SameOutcome(ValidateParameters(
                            [tmpl.Metadata EXCEPT !.Parameters = parameters],
                            params))

C9_Witness ==
    /\ op = "ValidateParameters"
    /\ Cardinality(Reorderings) >= 2
    /\ missing # <<>>
    /\ invalid # <<>>

\* C10: a present boolean value passes the type check exactly when it is
\* true or false, and any other value makes RenderWithValidation fail with
\* an error reporting "<name>: must be true or false".
C10_BooleanReported ==
    op = "RenderWithValidation" =>
        \A i \in DOMAIN Declared :
            (Declared[i].Type = "boolean" /\ Declared[i].Name \in DOMAIN resolved)
                => IF resolved[Declared[i].Name] \in {"true", "false"}
                     THEN (Declared[i].Name \o ": must be true or false")
                              \notin Range(invalid)
                     ELSE /\ out = ""
                          /\ Contains(err, Declared[i].Name
                                             \o ": must be true or false")

\* the declarations with an options list whose key the validated mapping has
WithOptions ==
    {i \in DOMAIN Declared :
        Declared[i].Options # <<>> /\ Declared[i].Name \in DOMAIN Checked}

\* the entry of invalid that lists the options of declaration i
OptionsEntry(i) ==
    Declared[i].Name \o ": must be one of: " \o Join(Declared[i].Options, ", ")

\* some entry of invalid is about declaration i
Invalidated(i) ==
    \E k \in DOMAIN invalid : HasPrefix(invalid[k], Declared[i].Name \o ": ")

\* C11 as stated: for a parameter of any type with options whose key is
\* present, a value equal to one of the options passes validation for that
\* parameter, and any other value is recorded invalid with a reason listing
\* the options.
C11_OptionsDecide ==
    Validating =>
        \A i \in WithOptions :
            IF Checked[Declared[i].Name] \in Range(Declared[i].Options)
              THEN ~Invalidated(i)
              ELSE OptionsEntry(i) \in Range(invalid)

\* the declarations of name n that reject the value the mapping has for n,
\* by the type check or, the type check passed, by the options
Rejecting(n) ==
    {j \in DOMAIN Declared :
        /\ Declared[j].Name = n
        /\ \/ TypeError(Declared[j], Checked[n]) # ""
           \/ /\ Declared[j].Options # <<>>
              /\ Checked[n] \notin Range(Declared[j].Options)}

\* the number of entries of invalid about name n
EntriesAbout(n) ==
    Cardinality({k \in DOMAIN invalid : HasPrefix(invalid[k], n \o ": ")})

\* C11 as amended: the options are looked at only for a value that passes
\* the type check of the parameter: such a value passes when it equals one
\* of the options and is otherwise recorded invalid with the reason "must
\* be one of: " and the options joined by ", "; a value that fails the type
\* check is recorded invalid with the reason of the type check alone. Each
\* declaration adds one entry when it rejects the value and none otherwise.
C11_OptionsDecideTypedValues ==
    Validating =>
        \A i \in WithOptions :
            /\ EntriesAbout(Declared[i].Name)
                   = Cardinality(Rejecting(Declared[i].Name))
            /\ IF TypeError(Declared[i], Checked[Declared[i].Name]) # ""
                 THEN (Declared[i].Name \o ": "
                         \o TypeError(Declared[i], Checked[Declared[i].Name]))
                           \in Range(invalid)
               ELSE (Checked[Declared[i].Name] \notin Range(Declared[i].Options))
                        => OptionsEntry(i) \in Range(invalid)

C11_Witness ==
    /\ op = "ValidateParameters"
    /\ \E i \in WithOptions :
           /\ Declared[i].Type = "integer"
           /\ Declared[i].Options = <<"80", "443", "true">>
           /\ params[Declared[i].Name] = "0"
           /\ invalid = <<"value: must be one of: 80, 443, true">>

\* text is an optional sign followed by one or more decimal digits
IsSignedDecimal(text) ==
    /\ text # ""
    /\ \A i \in 1..Len(text) :
           \/ SubSeq(text, i, i) \in DigitChars
           \/ i = 1 /\ Len(text) > 1 /\ SubSeq(text, i, i) \in {"+", "-"}

\* the signed decimals among the values that no 64-bit int holds
BeyondInt == {"9223372036854775808", "-9223372036854775809"}

\* C12: a present value of an integer parameter passes the type check
\* exactly when it is an optional sign followed by decimal digits that
\* denote a number within the range of int; every other value is recorded
\* invalid with the reason "must be an integer", which is the error
\* returned when no parameter is missing.
C12_IntegerCheck ==
    Validating =>
        \A i \in DOMAIN Declared :
            (Declared[i].Type = "integer" /\ Declared[i].Name \in DOMAIN Checked)
                => IF /\ IsSignedDecimal(Checked[Declared[i].Name])
                      /\ Checked[Declared[i].Name] \notin BeyondInt
                     THEN (Declared[i].Name \o ": must be an integer")
                              \notin Range(invalid)
                     ELSE /\ (Declared[i].Name \o ": must be an integer")
                                 \in Range(invalid)
                          /\ missing = <<>> =>
                                 Contains(err, Declared[i].Name
                                                 \o ": must be an integer")

C12_Witness ==
    /\ op = "ValidateParameters"
    /\ params = [value |-> "9223372036854775808"]
    /\ err = "invalid parameter values: value: must be an integer"

\* the text of the template file and its lines
Content == files["site.conf.tpl"].Content

ContentLines == Split(Content, "\n")

\* the lines of the leading run of comment and blank lines
Prefix == SubSeq(ContentLines, 1, Least({i \in DOMAIN ContentLines :
                                            ContentLines[i] = BodyStart}) - 1)

\* a template has been loaded from the file
LoadedTemplate == op = "LoadTemplate" /\ tmpl # NoTemplate

IsMatched(line) == line \notin UnmatchedLines

\* C13: ParseTemplateMetadata returns no error, and the comment and blank
\* lines that match none of the five patterns change nothing: the metadata
\* is that of the text without them, and it is the empty metadata when no
\* line of the prefix matches.
C13_UnmatchedLinesIgnored ==
    /\ (op = "LoadTemplate") => (err = "" /\ tmpl # NoTemplate)
    /\ LoadedTemplate =>
           /\ tmpl.Metadata
                  = ParseTemplateMetadata(
                        Join(SelectSeq(ContentLines, IsMatched), "\n"))
           /\ (Range(Prefix) \subseteq UnmatchedLines)
                  => tmpl.Metadata = EmptyMetadata

C13_Witness ==
    /\ LoadedTemplate
    /\ Prefix = <<"# @param port integer required \"\"",
                  "# @param port integer optional \"Server port\" default=3000">>
    /\ Len(tmpl.Metadata.Parameters) = 1

\* what each declaration line of the inputs declares
Declares(line) ==
    IF line = "# @param domain string required \"Primary domain\""
      THEN [Name |-> "domain", Type |-> "string", Required |-> TRUE]
    ELSE IF line = "# @param port integer optional \"Server port\" default=3000"
      THEN [Name |-> "port", Type |-> "integer", Required |-> FALSE]
    ELSE [Name |-> "port", Type |-> "number", Required |-> TRUE]

IsDeclaration(line) == line \in DeclarationLines

\* the declaration lines of the prefix, in source order
PrefixDeclarations == SelectSeq(Prefix, IsDeclaration)

\* C14: the parameters are the matched @param lines of the prefix in source
\* order, one entry per line, repeated names included.
C14_DeclarationOrder ==
    LoadedTemplate =>
        /\ Len(tmpl.Metadata.Parameters) = Len(PrefixDeclarations)
        /\ \A i \in DOMAIN PrefixDeclarations :
               /\ tmpl.Metadata.Parameters[i].Name
                      = Declares(PrefixDeclarations[i]).Name
               /\ tmpl.Metadata.Parameters[i].Type
                      = Declares(PrefixDeclarations[i]).Type
               /\ tmpl.Metadata.Parameters[i].Required
                      = Declares(PrefixDeclarations[i]).Required

C14_Witness ==
    /\ LoadedTemplate
    /\ Prefix = <<"\t#@param   port   number   required   \"Port\"",
                  "# @param port integer optional \"Server port\" default=3000">>
    /\ Len(tmpl.Metadata.Parameters) = 2
    /\ tmpl.Metadata.Parameters[1].Type = "number"

\* C16: every parameter of the metadata has one of the five types.
C16_TypeIsOneOfFive ==
    LoadedTemplate =>
        \A i \in DOMAIN tmpl.Metadata.Parameters :
            tmpl.Metadata.Parameters[i].Type \in ParamTypes

\* C15: a well-formed declaration written as an @param line and parsed
\* back gives one parameter whose name, type, required flag, description,
\* default and options are those of the declaration.
C15_RoundTrip ==
    LoadedTemplate =>
        \A form \in WellFormed :
            Content = RoundTripText(form)
                => tmpl.Metadata.Parameters = <<form.info>>

\* the names of the template files directly in the directory, without
\* the suffix
TemplateFiles ==
    {stem \in {"", "old", "sub", "sub/z", "x", "y", "z", "notes.txt",
               "x.conf.tpl.bak", "x.conf.tpl", "notes"} :
        /\ ~Contains(stem, "/")
        /\ (stem \o ".conf.tpl") \in DOMAIN files
        /\ ~files[stem \o ".conf.tpl"].IsDir}

\* C17: ListTemplates returns one name per entry of the directory that is
\* not a directory and whose name ends with .conf.tpl, the suffix stripped,
\* and nothing else; x.conf.tpl, y.conf.tpl and notes.txt give {x, y}.
C17_ListsTemplateFiles ==
    (op = "ListTemplates" /\ err = "") =>
        /\ Range(templates) = TemplateFiles
        /\ Len(templates) = Cardinality(TemplateFiles)
        /\ (files = [f \in {"x.conf.tpl", "y.conf.tpl", "notes.txt"} |-> File("")])
               => Range(templates) = {"x", "y"}

C17_Witness ==
    /\ op = "ListTemplates"
    /\ DOMAIN files = {"x.conf.tpl", "y.conf.tpl", "notes.txt", "old.conf.tpl",
                       "sub", "sub/z.conf.tpl"}
    /\ files["old.conf.tpl"].IsDir
    /\ ~files["notes.txt"].IsDir
    /\ templates = <<"x", "y">>

\* what the template of caller w returns when the call w is in runs alone
Alone(w) ==
    IF instances[w].validated
      THEN RenderWithValidation(instances[w].tmpl, OwnParams(w))
    ELSE Render(instances[w].tmpl, OwnParams(w))

\* C18: under every interleaving of the render of template A with
\* {domain: a.com} and of template B with {domain: b.com}, each output is
\* what that template returns when rendered alone with its own mapping, and
\* neither output contains the value of the other.
C18_InstancesIndependent ==
    \A w \in Instances :
        instances[w].pc = "done" =>
            /\ instances[w].out = Alone(w).out
            /\ instances[w].err = Alone(w).err
            /\ \A v \in Instances \ {w} :
                   ~Contains(instances[w].out, OwnParams(v).domain)

C18_Witness ==
    /\ \A w \in Instances :
           /\ instances[w].pc = "done"
           /\ instances[w].interleaved
           /\ Contains(instances[w].out, OwnParams(w).domain)
    /\ instances["A"].tmpl.Path = instances["B"].tmpl.Path
    /\ instances["A"].validated

\* the calls made on a loaded template
Methods ==
    {"ApplyDefaults", "ValidateParameters", "Render", "RenderWithValidation",
     "GetParameterHelp"}

\* C19: a Template is immutable after load: no call of Render,
\* RenderWithValidation, ApplyDefaults, ValidateParameters or
\* GetParameterHelp, successful or failing, changes the template's name,
\* path, content or metadata, and the mapping the caller passed is after
\* the call what it was before.
C19_ImmutableAfterLoad ==
    [][/\ tmpl # NoTemplate => tmpl' = tmpl
       /\ op' \in Methods => passed' = params']_vars

C19_Witness ==
    /\ op = "RenderWithValidation"
    /\ err # ""
    /\ tmpl # NoTemplate
    /\ DOMAIN resolved # DOMAIN params
    /\ passed = params
    /\ params # EmptyMap

\* the calls a run made after the backup, and their names
Steps == SelectSeq(run.trail, LAMBDA d : d.step # "backup")

StepNames == [i \in DOMAIN Steps |-> Steps[i].step]

\* the calls are the first ones of order, each made after the one before
\* it succeeded
InOrder(order) ==
    /\ Len(Steps) <= Len(order)
    /\ StepNames = SubSeq(order, 1, Len(Steps))
    /\ \A i \in 1..(Len(Steps) - 1) : Steps[i].ok

\* what the run does after a failed nginx -t and after a failed symlink
FailuresStop ==
    /\ [step |-> "test", ok |-> FALSE] \in Range(run.trail) =>
           /\ run.err # ""
           /\ run.config = <<run.content>>
           /\ run.link = run.in.linked
           /\ {"symlink", "reload"} \cap Range(StepNames) = {}
    /\ [step |-> "symlink", ok |-> FALSE] \in Range(run.trail) =>
           "reload" \notin Range(StepNames)

C21_DryRunNoEffect ==
    (run.done /\ run.in.dryRun) =>
        /\ run.trail = <<>>
        /\ run.config = run.in.existing
        /\ run.backup = <<>>
        /\ run.link = run.in.linked

C21_Witness ==
    /\ run.done
    /\ run.in.dryRun
    /\ run.in.hasEnabled
    /\ run.in.existing = <<>>
    /\ run.content # ""
    /\ run.err = ""
    /\ run.config = <<>>
    /\ run.trail = <<>>

C26_ScanStopsAtBody ==
    LoadedTemplate =>
        /\ tmpl.Metadata = ParseTemplateMetadata(Join(Prefix, "\n"))
        /\ tmpl.Metadata.Name # "late"
        /\ tmpl.Metadata.Version # "9"
        /\ \A i \in DOMAIN tmpl.Metadata.Parameters :
               tmpl.Metadata.Parameters[i].Name # "late"

C26_Witness ==
    /\ LoadedTemplate
    /\ Contains(Content, BodyStart \o "\n\n# Template: late\n# Version: 9")
    /\ Prefix = <<"# Template: api-server", "">>
    /\ tmpl.Metadata = [EmptyMetadata EXCEPT !.Name = "api-server"]

\* the field each metadata line of the inputs sets, and the value
Sets(line) ==
    IF line = "# Template: api-server"
      THEN [field |-> "Name", val |-> "api-server"]
    ELSE IF line = "#Description:API server with SSL"
      THEN [field |-> "Description", val |-> "API server with SSL"]
    ELSE IF line = "  # Author:   your-name  "
      THEN [field |-> "Author", val |-> "your-name"]
    ELSE IF line = "# Version: 1.0"
      THEN [field |-> "Version", val |-> "1.0"]
    ELSE IF line = "# Author: Template: me"
      THEN [field |-> "Author", val |-> "Template: me"]
    ELSE IF line = "# Description: see @param port integer required \"Port\""
      THEN [field |-> "Description",
            val |-> "see @param port integer required \"Port\""]
    ELSE [field |-> "", val |-> ""]

\* the value the lines leave in a field: that of the last line setting it
FieldOf(lines, field) ==
    LET setters == {i \in DOMAIN lines : Sets(lines[i]).field = field}
    IN  IF setters = {} THEN ""
        ELSE Sets(lines[CHOOSE i \in setters : \A j \in setters : j <= i]).val

\* the metadata is what the lines set, with as many parameters as they
\* declare
OneEffectEach(lines, metadata) ==
    /\ metadata.Name = FieldOf(lines, "Name")
    /\ metadata.Description = FieldOf(lines, "Description")
    /\ metadata.Author = FieldOf(lines, "Author")
    /\ metadata.Version = FieldOf(lines, "Version")
    /\ Len(metadata.Parameters) = Len(SelectSeq(lines, IsDeclaration))

\* C27: a line of the prefix has the effect of the first pattern it matches
\* and no other: each of name, description, author and version is the value
\* of the last line of its own pattern, and the parameters are the @param
\* lines; a Description line whose value contains an @param declaration
\* sets the description only, an Author line whose value contains
\* "Template:" the author only.
C27_OneEffectPerLine == LoadedTemplate => OneEffectEach(Prefix, tmpl.Metadata)

C27_Witness ==
    /\ LoadedTemplate
    /\ Prefix = <<"# Description: see @param port integer required \"Port\"",
                  "# Author: Template: me">>
    /\ tmpl.Metadata =
           [EmptyMetadata EXCEPT
               !.Description = "see @param port integer required \"Port\"",
               !.Author = "Template: me"]

\* C28: for an @param line with the attribute default=<value>, the parsed
\* default is <value> itself when it is a bare token and the text between
\* the quotes when it is a double-quoted string, quoted strings with spaces
\* or commas included, whether default= comes before or after options=[...].
C28_DefaultParsed ==
    LoadedTemplate =>
        \A form \in WellFormed :
            (Content = RoundTripText(form) /\ form.info.Default # "")
                => /\ Len(tmpl.Metadata.Parameters) = 1
                   /\ tmpl.Metadata.Parameters[1].Default = form.info.Default

\* the declarations of name n
DeclarationsOf(n) == {j \in DOMAIN Declared : Declared[j].Name = n}

\* the reason recorded for a value that fails the check of a type
TypeReason(type) ==
    IF type = "integer" THEN "must be an integer"
    ELSE IF type = "boolean" THEN "must be true or false"
    ELSE "file path cannot be empty"

\* C30: ValidateParameters records at most one invalid entry for each
\* declared parameter, and the type check comes before the options: a
\* present value that fails the type check is recorded with the reason of
\* the type check alone, also when the parameter has options and the value
\* is one of them; the reason of the options is recorded only for a value
\* that passed the type check.
C30_TypeBeforeOptions ==
    Validating =>
        /\ Len(invalid) <= Len(Declared)
        /\ \A i \in DOMAIN Declared :
               /\ EntriesAbout(Declared[i].Name)
                      <= Cardinality(DeclarationsOf(Declared[i].Name))
               /\ (Declared[i].Name \in DOMAIN Checked
                     /\ TypeError(Declared[i], Checked[Declared[i].Name]) # "")
                    => /\ (Declared[i].Name \o ": " \o TypeReason(Declared[i].Type))
                              \in Range(invalid)
                       /\ OptionsEntry(i) \notin Range(invalid)
               /\ (Declared[i].Options # <<>> /\ OptionsEntry(i) \in Range(invalid))
                    => TypeError(Declared[i], Checked[Declared[i].Name]) = ""
        /\ (/\ Len(Declared) = 1
            /\ Declared[1].Type = "integer"
            /\ Declared[1].Options = <<"80", "443", "true">>
            /\ Checked = [value |-> "true"])
              => invalid = <<"value: must be an integer">>

C30_Witness ==
    /\ op = "ValidateParameters"
    /\ Len(Declared) = 1
    /\ Declared[1].Type = "integer"
    /\ Declared[1].Options = <<"80", "443", "true">>
    /\ params = [value |-> "true"]
    /\ invalid = <<"value: must be an integer">>

\* the parameters the template of the run declares, by name
RunDeclared ==
    LET parameters == ParseTemplateMetadata(Content).Parameters
    IN  [i \in DOMAIN parameters |-> parameters[i].Name]

\* the prompts are for declared parameters, each at most once and in the
\* order of the declarations
PromptsInOrder(prompts, declared) ==
    /\ Range(prompts) \subseteq Range(declared)
    /\ \A i, j \in DOMAIN prompts :
           i < j => \E k, l \in DOMAIN declared :
                        /\ k < l
                        /\ declared[k] = prompts[i]
                        /\ declared[l] = prompts[j]

\* C29: within one run of generate the interactive input prompts for each
\* declared parameter at most once, in declaration order, and never for a
\* parameter supplied with --set, with --interactive as well as after a yes
\* to the question whether to enter the parameters interactively.
C29_PromptedOnceInOrder ==
    run.done =>
        /\ PromptsInOrder(run.prompts, RunDeclared)
        /\ Range(run.prompts) \cap DOMAIN run.set = {}

\* the entries of sites-enabled the last command removed
Removed == (DOMAIN host.before.enabled) \ (DOMAIN host.enabled)

\* the steps of the last command on the host
HostSteps == {host.trail[i].step : i \in DOMAIN host.trail}

\* C23: when generate N has written its configuration on a host with
\* sites-enabled and the file was not deleted since, enable N, its calls to
\* the file system succeeding, returns no error and sites-enabled holds a
\* symlink to the file generate wrote.
C23_EnableFindsGenerated ==
    (/\ host.cmd = "enable"
     /\ host.arg \in host.generated
     /\ host.hasEnabled
     /\ host.in.linkErr = "")
    => /\ host.err = ""
       /\ \E e \in DOMAIN host.enabled :
              /\ host.enabled[e].link
              /\ host.enabled[e].target = getOutputPath(host.arg)

\* C24: disable N leaves the configuration directory as it was and every
\* entry of sites-enabled it does not remove as it was; it removes at most
\* one entry, named N or N.conf and a symlink; when the entry N, or N.conf
\* where there is no N, is a regular file it returns an error and removes
\* nothing; it reloads only after removing a symlink and without
\* --no-reload.
C24_DisableOnlyUnlinks ==
    host.cmd = "disable"
    => /\ host.configs = host.before.configs
       /\ DOMAIN host.enabled \subseteq DOMAIN host.before.enabled
       /\ \A e \in DOMAIN host.enabled :
              host.enabled[e] = host.before.enabled[e]
       /\ Cardinality(Removed) <= 1
       /\ Removed \subseteq {host.arg, host.arg \o ".conf"}
       /\ \A e \in Removed : host.before.enabled[e].link
       /\ (\E e \in DOMAIN host.before.enabled :
              /\ ~host.before.enabled[e].link
              /\ \/ e = host.arg
                 \/ /\ e = host.arg \o ".conf"
                    /\ host.arg \notin DOMAIN host.before.enabled)
          => host.err # "" /\ Removed = {}
       /\ "reload" \in HostSteps => ~host.in.noReload /\ Removed # {}

\* disable mysite removed the symlink mysite.conf generate had left, kept
\* the configuration and reloaded
C24_Witness ==
    /\ host.cmd = "disable"
    /\ host.arg = "mysite"
    /\ Removed = {"mysite.conf"}
    /\ "mysite" \in host.generated
    /\ "mysite.conf" \in DOMAIN host.configs
    /\ "reload" \in HostSteps

\* C25: when delete N, confirmed with y, Y or yes or run with --force,
\* returns no error, the configuration directory holds no file N and
\* sites-enabled no symlink N; when it is not confirmed, both directories
\* are as they were and nothing was run.
C25_DeleteRemovesBoth ==
    host.cmd = "delete"
    => /\ (/\ host.in.force \/ host.in.answer \in {"y", "Y", "yes"}
           /\ host.err = "")
          => /\ host.arg \notin DOMAIN host.configs
             /\ ~(/\ host.arg \in DOMAIN host.enabled
                  /\ host.enabled[host.arg].link)
       /\ ~(host.in.force \/ host.in.answer \in {"y", "Y", "yes"})
          => /\ host.configs = host.before.configs
             /\ host.enabled = host.before.enabled
             /\ host.trail = <<>>

====
